---- MODULE Spec2Model ----
(***************************************************************************)
(* Model of the synchronization core of OAK Estimator's Firebase layer:    *)
(* src/firebase/sync-manager.js (sync coordinator, realtime filter, merge  *)
(* engine, fingerprint, local replica adapter) together with the parts of  *)
(* firestore-service.js, auth-service.js and index.js it calls.            *)
(***************************************************************************)
EXTENDS Integers, Sequences, FiniteSets, TLC

(***************************************************************************)
(* Bounds of the model.                                                    *)
(***************************************************************************)
MaxRequests == 3          \* syncToCloud callers
MaxWatchedRequests == 2      \* uploads issued next to settings and listener changes
MaxDownloads == 2         \* syncFromCloud callers
MaxUpdates == 1           \* recorded onUpdate calls
MaxTime == 1              \* distinct values of Date.now()

Null == "null"
Undefined == "undefined"
UndefinedId == -1

(***************************************************************************)
(* Records are JavaScript objects: ordered sequences of <<key, value>>     *)
(* pairs (insertion order is what JSON.stringify and the spread operator   *)
(* observe).  A collection is a sequence of records.                       *)
(***************************************************************************)
Has(rec, k) == \E i \in DOMAIN rec : rec[i][1] = k

Get(rec, k) == rec[CHOOSE i \in DOMAIN rec : rec[i][1] = k][2]

\* obj[k] = v : replaces the value in place, or appends a new property
SetField(rec, k, v) ==
    IF Has(rec, k)
    THEN [i \in DOMAIN rec |-> IF rec[i][1] = k THEN <<k, v>> ELSE rec[i]]
    ELSE Append(rec, <<k, v>>)

Rec1a == << <<"id", 1>>, <<"updatedAt", "2024-01-01">> >>
Rec1b == << <<"id", 1>>, <<"updatedAt", "2024-01-02">> >>
Rec2a == << <<"id", 2>>, <<"updatedAt", "2024-01-01">> >>

\* the collections callers upload and the remote store delivers
Collections == { <<>>, <<Rec1a>>, <<Rec1b>> }

(***************************************************************************)
(* JSON.stringify, as a sequence of UTF-16 code units.                     *)
(***************************************************************************)
StrCodes(s) ==
    CASE s = "id"         -> <<105, 100>>
      [] s = "updatedAt"  -> <<117, 112, 100, 97, 116, 101, 100, 65, 116>>
      [] s = "lineItems"  -> <<108, 105, 110, 101, 73, 116, 101, 109, 115>>
      [] s = "name"       -> <<110, 97, 109, 101>>
      [] s = "2024-01-01" -> <<50, 48, 50, 52, 45, 48, 49, 45, 48, 49>>
      [] s = "2024-01-02" -> <<50, 48, 50, 52, 45, 48, 49, 45, 48, 50>>
      [] s = "bad"        -> <<98, 97, 100>>
      [] s = "A"          -> <<65>>
      [] s = "AAeuufj"    -> <<65, 65, 101, 117, 117, 102, 106>>
      [] s = ""           -> <<>>

Quoted(s) == <<34>> \o StrCodes(s) \o <<34>>

RECURSIVE DecCodes(_)
DecCodes(n) == IF n < 10 THEN <<48 + n>> ELSE DecCodes(n \div 10) \o <<48 + (n % 10)>>

RECURSIVE JoinCodes(_)
JoinCodes(parts) ==
    IF Len(parts) = 0 THEN <<>>
    ELSE IF Len(parts) = 1 THEN parts[1]
    ELSE parts[1] \o <<44>> \o JoinCodes(Tail(parts))

JSONStringify(projects) ==
    LET \* an object; properties whose value is undefined are omitted
        RecordCodes(rec) ==
            LET kept == SelectSeq(rec, LAMBDA kv : kv[1] \in {"id", "lineItems"}
                                                     \/ kv[2] # Undefined)
                \* a number, an array of numbers or a string
                ValueCodes(k, v) ==
                    CASE k = "id"        -> DecCodes(v)
                      [] k = "lineItems" ->
                           <<91>> \o JoinCodes([n \in DOMAIN v |-> DecCodes(v[n])]) \o <<93>>
                      [] OTHER           -> Quoted(v)
            IN  <<123>> \o JoinCodes([n \in DOMAIN kept |->
                              Quoted(kept[n][1]) \o <<58>>
                                 \o ValueCodes(kept[n][1], kept[n][2])])
                        \o <<125>>
    IN  <<91>> \o JoinCodes([i \in DOMAIN projects |-> RecordCodes(projects[i])]) \o <<93>>

(***************************************************************************)
(* calculateHash.  A 32-bit integer is kept as <<high, low>> 16-bit halves *)
(* so that the arithmetic of  hash = ((hash << 5) - hash) + char;          *)
(* hash = hash & hash  wraps exactly as ToInt32 does.                      *)
(***************************************************************************)
W16 == 65536

\* the for loop over str.charCodeAt(i), from position i with hash h; the
\* hash is a 32-bit integer after every iteration
RECURSIVE HashCodes(_, _, _)
HashCodes(str, i, h) ==
    IF i > Len(str) THEN h
    ELSE LET lo   == 31 * h[2] + str[i]
             hi   == 31 * h[1] + (lo \div W16)
             next == <<hi % W16, lo % W16>>
         IN  CASE next \in (0..(W16 - 1)) \X (0..(W16 - 1)) -> HashCodes(str, i + 1, next)

IsNegative32(h) == h[1] >= 32768

\* Number.prototype.toString(36): digits 0..35, most significant first
RECURSIVE Digits36(_)
Digits36(m) ==
    LET qhi == m[1] \div 36
        mid == (m[1] % 36) * W16 + m[2]
        qlo == mid \div 36
        d   == mid % 36
    IN  IF qhi = 0 /\ qlo = 0 THEN <<d>> ELSE Digits36(<<qhi, qlo>>) \o <<d>>

ToString36(h) ==
    LET \* magnitude of the signed 32-bit integer, again as 16-bit halves
        m  == IF ~IsNegative32(h) THEN h
              ELSE IF h[2] = 0 THEN <<W16 - h[1], 0>>
              ELSE <<W16 - 1 - h[1], W16 - h[2]>>
        ds == Digits36(m)
        \* code unit of a base-36 digit: '0'..'9', 'a'..'z'
        cs == [i \in DOMAIN ds |-> IF ds[i] < 10 THEN 48 + ds[i] ELSE 87 + ds[i]]
    IN  IF IsNegative32(h) THEN <<45>> \o cs ELSE cs

\* the string 'empty'
EmptySentinel == <<101, 109, 112, 116, 121>>

\* variant: without the early return for the empty collection
HashOf_NoSentinel(projects) ==
    ToString36(HashCodes(JSONStringify(projects), 1, <<0, 0>>))

HashOf(projects) ==
    IF Len(projects) = 0 THEN EmptySentinel
    ELSE ToString36(HashCodes(JSONStringify(projects), 1, <<0, 0>>))

\* the fingerprints of the collections of the model, computed once
KnownHashes == [c \in Collections |-> HashOf(c)]

calculateHash(projects) ==
    IF projects \in Collections THEN KnownHashes[projects] ELSE HashOf(projects)

(***************************************************************************)
(* Merge engine: mergeProjects.                                            *)
(***************************************************************************)
CONFLICT_STRATEGY == {"server_wins", "local_wins", "latest_wins", "merge", "manual"}

RemoveField(rec, k) == SelectSeq(rec, LAMBDA kv : kv[1] # k)

\* obj[k] for a key that may be absent
Field(rec, k) ==
    IF Has(rec, k) THEN Get(rec, k)
    ELSE IF k = "id" THEN UndefinedId ELSE Undefined

\* JavaScript truthiness of obj[k]
Truthy(rec, k) ==
    /\ Has(rec, k)
    /\ CASE k = "id"        -> Get(rec, k) # 0 /\ Get(rec, k) # UndefinedId
         [] k = "lineItems" -> TRUE
         [] OTHER           -> Get(rec, k) # "" /\ Get(rec, k) # Undefined

NaN == -1

\* new Date(project.updatedAt || 0).getTime(), in days since the epoch
DateTime(rec) ==
    IF ~Truthy(rec, "updatedAt") THEN 0
    ELSE CASE Get(rec, "updatedAt") = "2024-01-01" -> 19723
           [] Get(rec, "updatedAt") = "2024-01-02" -> 19724
           [] OTHER -> NaN

\* localTime > remoteTime ; every comparison with NaN is false
NewerThan(l, r) == DateTime(l) # NaN /\ DateTime(r) # NaN /\ DateTime(l) > DateTime(r)

\* position of id in the Map's entries, 0 when absent
MapIndex(map, id) ==
    IF \E i \in DOMAIN map : map[i][1] = id
    THEN CHOOSE i \in DOMAIN map : map[i][1] = id
    ELSE 0

\* Map.prototype.set: an existing key keeps its position
MapSet(map, id, rec) ==
    IF MapIndex(map, id) = 0 THEN Append(map, <<id, rec>>)
    ELSE [map EXCEPT ![MapIndex(map, id)] = <<id, rec>>]

RECURSIVE AddRemote(_, _)
AddRemote(map, remote) ==
    IF Len(remote) = 0 THEN map
    ELSE AddRemote(MapSet(map, Field(Head(remote), "id"),
                          SetField(Head(remote), "source", "remote")),
                   Tail(remote))

RECURSIVE MergeFields(_, _, _, _)
MergeFields(resolved, l, r, i) ==
    IF i > Len(l) THEN resolved
    ELSE LET key == l[i][1]
             next ==
               CASE key = "updatedAt" ->
                      SetField(resolved, "updatedAt",
                               IF NewerThan(l, r) THEN Field(l, "updatedAt")
                               ELSE Field(r, "updatedAt"))
                 [] key = "lineItems" ->
                      IF Has(r, "lineItems")
                         /\ Len(Get(l, "lineItems")) > Len(Get(r, "lineItems"))
                      THEN SetField(resolved, "lineItems", Get(l, "lineItems"))
                      ELSE resolved
                 [] OTHER ->
                      IF Truthy(l, key) /\ ~Truthy(r, key)
                      THEN SetField(resolved, key, Get(l, key))
                      ELSE resolved
         IN  MergeFields(next, l, r, i + 1)

RECURSIVE MergeLocal(_, _, _)
MergeLocal(map, local, strategy) ==
    IF Len(local) = 0 THEN map
    ELSE LET l   == Head(local)
             id  == Field(l, "id")
             idx == MapIndex(map, id)
             \* resolvedProject for an id present on both sides (<<>> when undefined)
             Resolve(r) ==
               CASE strategy = "latest_wins" -> IF NewerThan(l, r) THEN l ELSE r
                 [] strategy = "merge"       -> MergeFields(r, l, r, 1)
                 [] OTHER                    -> <<>>
             entry ==
               IF idx = 0 THEN SetField(l, "source", "local")
               ELSE SetField(Resolve(map[idx][2]), "source", "merged")
         IN  MergeLocal(MapSet(map, id, entry), Tail(local), strategy)

\* whether the forEach over the local projects raises a TypeError
RECURSIVE MergeThrows(_, _, _)
MergeThrows(map, local, strategy) ==
    /\ Len(local) > 0
    /\ LET l   == Head(local)
           idx == MapIndex(map, Field(l, "id"))
       IN  \* the field-level merge reads .length of both lineItems
           \/ /\ idx # 0 /\ strategy = "merge"
              /\ Has(l, "lineItems") /\ ~Has(map[idx][2], "lineItems")
           \/ MergeThrows(MergeLocal(map, <<l>>, strategy), Tail(local), strategy)

mergeProjectsThrows(localProjects, remoteProjects, strategy) ==
    /\ strategy \notin {"server_wins", "local_wins"}
    /\ MergeThrows(AddRemote(<<>>, remoteProjects), localProjects, strategy)

\* variant: the two simple strategies exchanged
mergeProjects_Swapped(localProjects, remoteProjects, strategy) ==
    IF strategy = "server_wins" THEN localProjects
    ELSE IF strategy = "local_wins" THEN remoteProjects
    ELSE LET map == MergeLocal(AddRemote(<<>>, remoteProjects), localProjects, strategy)
         IN  [i \in DOMAIN map |-> RemoveField(map[i][2], "source")]

mergeProjects(localProjects, remoteProjects, strategy) ==
    IF strategy = "server_wins" THEN remoteProjects
    ELSE IF strategy = "local_wins" THEN localProjects
    ELSE LET map == MergeLocal(AddRemote(<<>>, remoteProjects), localProjects, strategy)
         IN  [i \in DOMAIN map |-> RemoveField(map[i][2], "source")]

(***************************************************************************)
(* State.                                                                  *)
(***************************************************************************)
VARIABLES
    currentUser,              \* authState.currentUser (Null: not authenticated)
    syncInProgress,           \* syncState.syncInProgress
    lastSyncTime,             \* syncState.lastSyncTime (NoTime: null)
    lastSyncedHash,           \* syncState.lastSyncedHash (NoHash: null)
    syncQueue,                \* syncState.syncQueue: the queued continuations
    realtimeUnsubscribe,      \* syncState.realtimeUnsubscribe is not null
    currentConflictStrategy,
    localStorage,             \* key -> <<>> (no entry) or <<collection>>
    subscription,             \* the attached snapshot listener: <<>> or <<[onUpdate]>>
    uploads,                  \* the syncToCloud callers
    downloads,                \* the syncFromCloud callers
    saveLog,                  \* saveUserProjects calls, in the order they started
    onUpdateLog,              \* calls of the onUpdate callback
    lastSnapshot,             \* the snapshot the listener delivered last
    lastNotify,               \* notifications sent by the last step that notified
    delivered,                \* the SyncResult most recently returned to a caller
    call,                     \* the library call examined on its own: <<>> when none
    syncListeners,            \* syncState.syncListeners: the registered status listeners
    autoSyncEnabled           \* syncState.autoSyncEnabled

vars == <<currentUser, syncInProgress, lastSyncTime, lastSyncedHash, syncQueue,
          realtimeUnsubscribe, currentConflictStrategy, localStorage, subscription,
          uploads, downloads, saveLog, onUpdateLog, lastSnapshot, lastNotify, delivered,
          call, syncListeners, autoSyncEnabled>>

syncStateVars == <<syncInProgress, lastSyncTime, lastSyncedHash, syncQueue,
                   realtimeUnsubscribe>>

Users == {"u1"}
NoTime == 0
NoHash == <<>>
Times == 1..MaxTime          \* values of Date.now()
Callbacks == {Null, "onSyncUpdate"}
Metadata == {[fromCache |-> FALSE, hasPendingWrites |-> FALSE],
             [fromCache |-> TRUE, hasPendingWrites |-> TRUE]}
Requests == 1..MaxRequests
DownloadIds == 1..MaxDownloads

\* error.message of a failed remote operation ("" when the provider gives none)

(***************************************************************************)
(* Local replica adapter.                                                  *)
(***************************************************************************)
getStorageKey(user) ==
    IF user # Null THEN <<"constructionEstimatorProjects", user>>
    ELSE <<"constructionEstimatorProjects">>

StorageKeys == {getStorageKey(u) : u \in Users \cup {Null}}

\* JSON.parse(JSON.stringify(projects)): undefined-valued properties are gone
JSONRoundTrip(projects) ==
    [i \in DOMAIN projects |->
        SelectSeq(projects[i],
                  LAMBDA kv : kv[1] \in {"id", "lineItems"} \/ kv[2] # Undefined)]

\* A stored entry is <<>> (getItem returns null) or <<text>>, the text being
\* described by what JSON.parse makes of it: kind "array" (value: the parsed
\* collection), "object" (value: the parsed object), "null", "unparseable"
\* or "emptyString".
\* variant: whatever was parsed is returned
loadLocalProjects_Unchecked(store, user) ==
    IF store[getStorageKey(user)] = <<>> THEN <<>>
    ELSE store[getStorageKey(user)][1].value

\* the value loadLocalProjects returns; every raise happens inside its try
\* block and ends in the catch block's return []
loadLocalProjects(store, user) ==
    LET stored == store[getStorageKey(user)]
    IN  IF stored = <<>> \/ stored[1].kind = "emptyString" THEN <<>>
        ELSE IF stored[1].kind = "unparseable" THEN <<>>
        ELSE IF stored[1].kind = "null" THEN <<>>
        ELSE IF stored[1].kind = "array" THEN stored[1].value
        ELSE <<>>

\* variant: nothing is written
saveLocalProjects_Never(store, user, projects, ok) == store

\* ok = FALSE: localStorage.setItem raises and the store keeps its content
saveLocalProjects(store, user, projects, ok) ==
    IF ok THEN [store EXCEPT ![getStorageKey(user)] =
                    <<[kind |-> "array", value |-> JSONRoundTrip(projects)]>>]
    ELSE store

(***************************************************************************)
(* Results returned to the callers.                                        *)
(***************************************************************************)
\* variant: the result carries no collection
SyncResult_NoProjects(success, projects, error, fromCache, direction) ==
    [success |-> success, projects |-> <<>>, error |-> error,
     fromCache |-> fromCache, direction |-> direction]

SyncResult(success, projects, error, fromCache, direction) ==
    [success |-> success, projects |-> projects, error |-> error,
     fromCache |-> fromCache, direction |-> direction]

\* the promise of caller id of operation op settles with result
Deliver(op, id, result) == <<[op |-> op, id |-> id, result |-> result]>>

\* error.message || fallback
OrElse(msg, fallback) == IF msg = "" THEN fallback ELSE msg

NewUpload == [pc |-> "new", projects |-> <<>>, hash |-> NoHash]
DoneUpload == [pc |-> "done", projects |-> <<>>, hash |-> NoHash]
NewDownload == [pc |-> "new", mergeWithLocal |-> FALSE]
DoneDownload == [pc |-> "done", mergeWithLocal |-> FALSE]

Init ==
    /\ currentUser = Null
    /\ syncInProgress = FALSE
    /\ lastSyncTime = NoTime
    /\ lastSyncedHash = NoHash
    /\ syncQueue = <<>>
    /\ realtimeUnsubscribe = FALSE
    /\ currentConflictStrategy = "latest_wins"
    /\ localStorage = [k \in StorageKeys |-> <<>>]
    /\ subscription = <<>>
    /\ uploads = [r \in Requests |-> NewUpload]
    /\ downloads = [d \in DownloadIds |-> NewDownload]
    /\ saveLog = <<>>
    /\ onUpdateLog = <<>>
    /\ lastSnapshot = <<>>
    /\ lastNotify = <<>>
    /\ delivered = <<>>
    /\ syncListeners = {}
    /\ autoSyncEnabled = TRUE
    /\ call = <<>>

(***************************************************************************)
(* Sync coordinator: syncToCloud.                                          *)
(***************************************************************************)
\* listeners whose body raises when it is called
RaisingListeners == {"onStatusRaises"}

\* variant: the loop has no try/catch, the first raise ends it
notifySyncListeners_NoCatch(listeners, status, isSyncing) ==
    [status |-> status, isSyncing |-> isSyncing,
     invoked |-> [l \in listeners |->
                     IF listeners \cap RaisingListeners = {} \/ l \in RaisingListeners
                     THEN 1 ELSE 0],
     caught |-> {}]

\* notifySyncListeners(status, isSyncing): forEach over the listener set,
\* each call in its own try/catch; invoked counts the calls per listener,
\* caught holds the listeners whose error was caught and logged
notifySyncListeners(listeners, status, isSyncing) ==
    [status |-> status, isSyncing |-> isSyncing,
     invoked |-> [l \in listeners |-> 1],
     caught |-> listeners \cap RaisingListeners]

\* variant: a failed save is reported like the start of a sync
StatusAfterSave_Syncing(result) == IF result.success THEN "success" ELSE "syncing"

\* the status syncToCloud sends once the awaited save returned: 'success'
\* at the end of the success branch, 'error' in the catch block
StatusAfterSave(result) == IF result.success THEN "success" ELSE "error"

\* variant: the session check always passes
isAuthenticated_Always == TRUE

isAuthenticated == currentUser # Null

\* variant: never queue
MustQueue_Never(inProgress) == FALSE

\* the guard of the queueing branch
MustQueue(inProgress) == inProgress

\* variant: the finally block leaves the queue as it is
QueueAfterFinally_Keep(queue) == queue

\* the finally block: the head of the queue, if any, is handed to setTimeout
QueueAfterFinally(queue) == IF Len(queue) > 0 THEN Tail(queue) ELSE queue

\* the body of syncToCloud(projects) up to its first suspension, run for
\* caller r either by the caller itself or by a queued continuation
syncToCloud(r, projects) ==
    IF ~isAuthenticated
    THEN /\ uploads' = [uploads EXCEPT ![r] = DoneUpload]
         /\ delivered' = Deliver("upload", r,
                SyncResult(FALSE, <<>>, "Not authenticated", FALSE, "upload"))
         /\ UNCHANGED <<syncInProgress, syncQueue, lastNotify, saveLog>>
    ELSE IF MustQueue(syncInProgress)
    THEN /\ syncQueue' = Append(syncQueue, r)
         /\ uploads' = [uploads EXCEPT ![r] =
                [pc |-> "queued", projects |-> projects, hash |-> NoHash]]
         /\ UNCHANGED <<syncInProgress, lastNotify, saveLog, delivered>>
    ELSE /\ syncInProgress' = TRUE
         /\ lastNotify' = <<notifySyncListeners(syncListeners, "syncing", TRUE)>>
         /\ uploads' = [uploads EXCEPT ![r] =
                [pc |-> "saving", projects |-> projects, hash |-> calculateHash(projects)]]
         /\ saveLog' = Append(saveLog, r)
         /\ UNCHANGED <<syncQueue, delivered>>

\* a caller invokes syncToCloud(projects)
SyncToCloudCall(r, projects) ==
    /\ uploads[r].pc = "new"
    /\ \A q \in Requests : q < r => uploads[q].pc # "new"
    /\ syncToCloud(r, projects)
    /\ UNCHANGED <<call, syncListeners, autoSyncEnabled, currentUser, lastSyncTime, lastSyncedHash, realtimeUnsubscribe,
                   currentConflictStrategy, localStorage, subscription, downloads,
                   onUpdateLog, lastSnapshot>>

\* setTimeout(nextSync, 100) fires: () => syncToCloud(projects).then(resolve)
QueuedSyncRuns(r) ==
    /\ uploads[r].pc = "timer"
    /\ syncToCloud(r, uploads[r].projects)
    /\ UNCHANGED <<call, syncListeners, autoSyncEnabled, currentUser, lastSyncTime, lastSyncedHash, realtimeUnsubscribe,
                   currentConflictStrategy, localStorage, subscription, downloads,
                   onUpdateLog, lastSnapshot>>

\* result of saveUserProjects / saveDocument for a remote outcome
\* variant: a failure of the remote save goes unnoticed
SaveDocumentResult_AlwaysOk(remoteOk, msg) == [success |-> TRUE, error |-> Null]

SaveDocumentResult(remoteOk, msg) ==
    IF remoteOk THEN [success |-> TRUE, error |-> Null]
    ELSE [success |-> FALSE, error |-> OrElse(msg, "Failed to save document")]

\* variant: the fingerprint of the empty collection is recorded
HashAfterUpload_Empty(hashBefore, projects) == EmptySentinel

\* what syncToCloud records as last synced after a successful save
HashAfterUpload(hashBefore, projects) == hashBefore

\* await saveUserProjects(projects) returns: the rest of syncToCloud
SaveCompletes(r, remoteOk, msg, storeOk, t) ==
    /\ uploads[r].pc = "saving"
    /\ LET result == SaveDocumentResult(remoteOk, msg)
       IN  IF result.success
           THEN /\ lastSyncTime' = t
                /\ lastSyncedHash' = HashAfterUpload(uploads[r].hash, uploads[r].projects)
                /\ localStorage' = saveLocalProjects(localStorage, currentUser,
                                                     uploads[r].projects, storeOk)
                /\ delivered' = Deliver("upload", r,
                       SyncResult(TRUE, uploads[r].projects, Null, FALSE, "upload"))
           ELSE /\ delivered' = Deliver("upload", r,
                       SyncResult(FALSE, <<>>, OrElse(result.error, "Sync failed"),
                                  FALSE, "upload"))
                /\ UNCHANGED <<lastSyncTime, lastSyncedHash, localStorage>>
    /\ lastNotify' = <<notifySyncListeners(syncListeners,
                          StatusAfterSave(SaveDocumentResult(remoteOk, msg)), FALSE)>>
    \* caller r settles and the finally block schedules the head of the queue
    /\ uploads' = [q \in Requests |->
                      IF q = r THEN DoneUpload
                      ELSE IF Len(syncQueue) > 0 /\ q = Head(syncQueue)
                           THEN [uploads[q] EXCEPT !.pc = "timer"]
                           ELSE uploads[q]]
    /\ syncInProgress' = FALSE
    /\ syncQueue' = QueueAfterFinally(syncQueue)
    /\ UNCHANGED <<call, syncListeners, autoSyncEnabled, currentUser, realtimeUnsubscribe, currentConflictStrategy, subscription,
                   downloads, saveLog, onUpdateLog, lastSnapshot>>

(***************************************************************************)
(* Sync coordinator: syncFromCloud.                                        *)
(***************************************************************************)
SyncFromCloudCall(d, mergeWithLocal) ==
    /\ downloads[d].pc = "new"
    /\ \A e \in DownloadIds : e < d => downloads[e].pc # "new"
    /\ IF ~isAuthenticated
       THEN /\ downloads' = [downloads EXCEPT ![d] = DoneDownload]
            /\ delivered' = Deliver("download", d,
                   SyncResult(FALSE, <<>>, "Not authenticated", FALSE, "download"))
       ELSE /\ downloads' = [downloads EXCEPT ![d] =
                   [pc |-> "fetching", mergeWithLocal |-> mergeWithLocal]]
            /\ UNCHANGED delivered
    /\ UNCHANGED <<call, syncListeners, autoSyncEnabled, currentUser, syncStateVars, currentConflictStrategy, localStorage,
                   subscription, uploads, saveLog, onUpdateLog, lastSnapshot, lastNotify>>

\* variant: the local replica is never merged in
FinalProjects_RemoteOnly(mergeWithLocal, localProjects, remoteProjects, strategy) ==
    remoteProjects

\* finalProjects of a successful fetch
FinalProjects(mergeWithLocal, localProjects, remoteProjects, strategy) ==
    IF mergeWithLocal /\ Len(localProjects) > 0
    THEN mergeProjects(localProjects, remoteProjects, strategy)
    ELSE remoteProjects

\* await fetchUserProjects() returns: the rest of syncFromCloud.  remote is
\* result.data.projects || [] (the empty collection when there is no document)
FetchCompletes(d, remoteOk, remote, fromCache, msg, storeOk, t) ==
    /\ downloads[d].pc = "fetching"
    /\ LET mergeWithLocal == downloads[d].mergeWithLocal
           localProjects  == loadLocalProjects(localStorage, currentUser)
           throws == /\ mergeWithLocal
                     /\ Len(localProjects) > 0
                     /\ mergeProjectsThrows(localProjects, remote, currentConflictStrategy)
           final  == FinalProjects(mergeWithLocal, localProjects, remote,
                                   currentConflictStrategy)
       IN  IF remoteOk /\ ~throws
           THEN /\ localStorage' = saveLocalProjects(localStorage, currentUser, final, storeOk)
                /\ lastSyncTime' = t
                /\ lastSyncedHash' = calculateHash(final)
                /\ delivered' = Deliver("download", d,
                       SyncResult(TRUE, final, Null, fromCache,
                                  IF mergeWithLocal THEN "merge" ELSE "download"))
           ELSE /\ delivered' = Deliver("download", d,
                       SyncResult(FALSE, <<>>,
                                  IF remoteOk THEN "TypeError"
                                  ELSE OrElse(OrElse(msg, "Failed to fetch document"),
                                              "Sync failed"),
                                  FALSE, "download"))
                /\ UNCHANGED <<localStorage, lastSyncTime, lastSyncedHash>>
    /\ downloads' = [downloads EXCEPT ![d] = DoneDownload]
    /\ UNCHANGED <<call, syncListeners, autoSyncEnabled, currentUser, syncInProgress, syncQueue, realtimeUnsubscribe,
                   currentConflictStrategy, subscription, uploads, saveLog, onUpdateLog, lastSnapshot,
                   lastNotify>>

(***************************************************************************)
(* Realtime filter.                                                        *)
(***************************************************************************)
\* variant: without the early return on syncInProgress
SkipSnapshot_HashOnly(inProgress, newHash, lastHash) == newHash = lastHash

\* the two early returns of the snapshot callback
SkipSnapshot(inProgress, newHash, lastHash) == inProgress \/ newHash = lastHash

\* the snapshot listener delivers (projects, metadata)
Snapshot(projects, metadata, storeOk, t) ==
    LET newHash == calculateHash(projects)
        skip    == SkipSnapshot(syncInProgress, newHash, lastSyncedHash)
    IN  /\ subscription # <<>>
        /\ Len(onUpdateLog) < MaxUpdates
        /\ lastSnapshot' = <<[projects |-> projects, syncing |-> syncInProgress,
                              forwarded |-> ~skip]>>
        /\ IF skip
           THEN UNCHANGED <<localStorage, lastSyncedHash, lastSyncTime, onUpdateLog>>
           ELSE /\ localStorage' = saveLocalProjects(localStorage, currentUser, projects,
                                                     storeOk)
                /\ lastSyncedHash' = newHash
                /\ lastSyncTime' = t
                /\ onUpdateLog' = IF subscription[1].onUpdate # Null
                                  THEN Append(onUpdateLog, <<projects, metadata>>)
                                  ELSE onUpdateLog
        /\ UNCHANGED <<call, syncListeners, autoSyncEnabled, currentUser, syncInProgress, syncQueue, realtimeUnsubscribe,
                       currentConflictStrategy, subscription, uploads, downloads, saveLog,
                       lastNotify, delivered>>

\* the snapshot listener reports an error
SnapshotError ==
    /\ subscription # <<>>
    /\ lastNotify' = <<notifySyncListeners(syncListeners, "error", FALSE)>>
    /\ UNCHANGED <<call, syncListeners, autoSyncEnabled, currentUser, syncStateVars, currentConflictStrategy, localStorage,
                   subscription, uploads, downloads, saveLog, onUpdateLog, lastSnapshot, delivered>>

\* effect of startRealtimeSync(onUpdate) on <<realtimeUnsubscribe, subscription>>
startRealtimeSync(user, handle, sub, onUpdate) ==
    IF user = Null \/ handle THEN <<handle, sub>>
    ELSE <<TRUE, <<[onUpdate |-> onUpdate]>> >>

StartRealtimeSync(onUpdate) ==
    /\ realtimeUnsubscribe' =
           startRealtimeSync(currentUser, realtimeUnsubscribe, subscription, onUpdate)[1]
    /\ subscription' =
           startRealtimeSync(currentUser, realtimeUnsubscribe, subscription, onUpdate)[2]
    /\ UNCHANGED <<call, syncListeners, autoSyncEnabled, currentUser, syncInProgress,
                   lastSyncTime, lastSyncedHash, syncQueue, currentConflictStrategy,
                   localStorage, uploads, downloads, saveLog, onUpdateLog, lastSnapshot,
                   lastNotify, delivered>>

\* variant: the handle is dropped without calling it
stopRealtimeSync_KeepListener(handle, sub) == <<FALSE, sub>>

\* effect of stopRealtimeSync() on <<realtimeUnsubscribe, subscription>>
stopRealtimeSync(handle, sub) == IF handle THEN <<FALSE, <<>> >> ELSE <<handle, sub>>

StopRealtimeSync ==
    /\ realtimeUnsubscribe' = stopRealtimeSync(realtimeUnsubscribe, subscription)[1]
    /\ subscription' = stopRealtimeSync(realtimeUnsubscribe, subscription)[2]
    /\ UNCHANGED <<call, syncListeners, autoSyncEnabled, currentUser, syncInProgress, lastSyncTime, lastSyncedHash, syncQueue,
                   currentConflictStrategy, localStorage, uploads, downloads, saveLog,
                   onUpdateLog, lastSnapshot, lastNotify, delivered>>

\* the caller invokes the Unsubscribe function startRealtimeSync returned
Unsubscribe ==
    /\ subscription # <<>>
    /\ subscription' = <<>>
    /\ UNCHANGED <<call, syncListeners, autoSyncEnabled, currentUser, syncStateVars, currentConflictStrategy, localStorage,
                   uploads, downloads, saveLog, onUpdateLog, lastSnapshot, lastNotify, delivered>>

clearSyncState ==
    /\ realtimeUnsubscribe' = stopRealtimeSync(realtimeUnsubscribe, subscription)[1]
    /\ subscription' = stopRealtimeSync(realtimeUnsubscribe, subscription)[2]
    /\ lastSyncTime' = NoTime
    /\ lastSyncedHash' = NoHash
    /\ syncInProgress' = FALSE
    /\ syncQueue' = <<>>
    /\ UNCHANGED <<call, syncListeners, autoSyncEnabled, currentUser, currentConflictStrategy, localStorage, uploads, downloads,
                   saveLog, onUpdateLog, lastSnapshot, lastNotify, delivered>>

setConflictStrategy(strategy) ==
    /\ strategy \in CONFLICT_STRATEGY
    /\ currentConflictStrategy' = strategy
    /\ UNCHANGED <<call, syncListeners, autoSyncEnabled, currentUser, syncStateVars, localStorage, subscription, uploads,
                   downloads, saveLog, onUpdateLog, lastSnapshot, lastNotify, delivered>>

(***************************************************************************)
(* Authentication: the onAuthStateChanged handler of initAuthListener with *)
(* the callback initializeApp registers (start realtime sync on sign-in,   *)
(* stop it on sign-out).                                                   *)
(***************************************************************************)
AuthStateChanged(user, onSyncUpdate) ==
    /\ user # currentUser
    /\ currentUser' = user
    /\ LET rt == IF user # Null
                 THEN startRealtimeSync(user, realtimeUnsubscribe, subscription, onSyncUpdate)
                 ELSE stopRealtimeSync(realtimeUnsubscribe, subscription)
       IN  /\ realtimeUnsubscribe' = rt[1]
           /\ subscription' = rt[2]
    /\ UNCHANGED <<call, syncListeners, autoSyncEnabled, syncInProgress, lastSyncTime, lastSyncedHash, syncQueue,
                   currentConflictStrategy, localStorage, uploads, downloads, saveLog,
                   onUpdateLog, lastSnapshot, lastNotify, delivered>>

(***************************************************************************)
(* Specifications.                                                         *)
(***************************************************************************)
\* how a remote operation and the local write after it can turn out: the
\* provider's message matters only on failure, the local write only on success
RemoteOutcomes ==
    {o \in [remoteOk : BOOLEAN, msg : {"", "unavailable"}, storeOk : BOOLEAN] :
        /\ o.remoteOk => o.msg = ""
        /\ ~o.remoteOk => o.storeOk}

\* the steps of the syncToCloud callers 1..n
UploadSteps(n) ==
    \/ \E r \in 1..n, p \in Collections : SyncToCloudCall(r, p)
    \/ \E r \in 1..n : QueuedSyncRuns(r)
    \/ \E r \in 1..n, o \in RemoteOutcomes, t \in Times :
          SaveCompletes(r, o.remoteOk, o.msg, o.storeOk, t)

\* the steps of a single syncToCloud caller: nothing is ever queued
SoleUploadSteps ==
    \/ \E p \in Collections : SyncToCloudCall(1, p)
    \/ \E o \in RemoteOutcomes, t \in Times :
          SaveCompletes(1, o.remoteOk, o.msg, o.storeOk, t)

\* the steps of the syncFromCloud callers 1..n
DownloadSteps(n) ==
    \/ \E d \in 1..n, m \in BOOLEAN : SyncFromCloudCall(d, m)
    \/ \E d \in 1..n, o \in RemoteOutcomes, remote \in Collections,
          fromCache \in BOOLEAN, t \in Times :
          /\ ~o.remoteOk => remote = <<>> /\ ~fromCache
          /\ FetchCompletes(d, o.remoteOk, remote, fromCache, o.msg, o.storeOk, t)

RealtimeSteps ==
    \/ \E p \in Collections, md \in Metadata, storeOk \in BOOLEAN, t \in Times :
          Snapshot(p, md, storeOk, t)
    \/ SnapshotError
    \/ \E cb \in Callbacks : StartRealtimeSync(cb)
    \/ StopRealtimeSync
    \/ Unsubscribe

SessionSteps ==
    \/ clearSyncState
    \/ \E u \in Users \cup {Null}, cb \in Callbacks : AuthStateChanged(u, cb)

\* the whole system
Next ==
    \/ UploadSteps(MaxRequests)
    \/ DownloadSteps(MaxDownloads)
    \/ RealtimeSteps
    \/ SessionSteps
    \/ \E s \in CONFLICT_STRATEGY : setConflictStrategy(s)

Spec == Init /\ [][Next]_vars

\* the upload queue under sign-in, sign-out and clearSyncState
NextUpload == UploadSteps(MaxRequests) \/ SessionSteps

SpecUpload == Init /\ [][NextUpload]_vars

\* the realtime filter next to an upload
NextRealtime == RealtimeSteps \/ SoleUploadSteps \/ SessionSteps

SpecRealtime == Init /\ [][NextRealtime]_vars

\* a single download next to a single upload
NextDownload ==
    \/ DownloadSteps(1)
    \/ SoleUploadSteps
    \/ SessionSteps
    \/ \E s \in CONFLICT_STRATEGY : setConflictStrategy(s)

SpecDownload == Init /\ [][NextDownload]_vars

\* an authenticated session: the state right after the first sign-in, and
\* uploads only (no sign-out, no clearSyncState)
InitSession ==
    /\ currentUser \in Users
    /\ syncInProgress = FALSE
    /\ lastSyncTime = NoTime
    /\ lastSyncedHash = NoHash
    /\ syncQueue = <<>>
    /\ realtimeUnsubscribe = TRUE
    /\ currentConflictStrategy = "latest_wins"
    /\ localStorage = [k \in StorageKeys |-> <<>>]
    /\ subscription \in {<<[onUpdate |-> cb]>> : cb \in Callbacks}
    /\ uploads = [r \in Requests |-> NewUpload]
    /\ downloads = [d \in DownloadIds |-> NewDownload]
    /\ saveLog = <<>>
    /\ onUpdateLog = <<>>
    /\ lastSnapshot = <<>>
    /\ lastNotify = <<>>
    /\ delivered = <<>>
    /\ syncListeners = {}
    /\ autoSyncEnabled = TRUE
    /\ call = <<>>

NextSession == UploadSteps(MaxRequests)

SpecSession == InitSession /\ [][NextSession]_vars

\* an authenticated session in which clearSyncState is called as well
NextQueue == UploadSteps(MaxRequests) \/ clearSyncState

SpecQueue == InitSession /\ [][NextQueue]_vars

\* every remote save terminates and every timer fires
UploadFairness ==
    /\ \A r \in Requests : WF_vars(QueuedSyncRuns(r))
    /\ \A r \in Requests :
          WF_vars(\E o \in RemoteOutcomes, t \in Times :
                      SaveCompletes(r, o.remoteOk, o.msg, o.storeOk, t))

FairSpecQueue == SpecQueue /\ UploadFairness

(***************************************************************************)
(* Properties.                                                             *)
(***************************************************************************)
Saving == {r \in Requests : uploads[r].pc = "saving"}

Range(seq) == {seq[i] : i \in DOMAIN seq}

\* position of request r in the log of started saves (0: not started)
SaveIndex(r) ==
    IF r \in Range(saveLog) THEN CHOOSE i \in DOMAIN saveLog : saveLog[i] = r ELSE 0

\* C1: single-flight upload: under any interleaving of syncToCloud, timer
\* firings, sign-in/sign-out and clearSyncState, at most one syncToCloud
\* invocation is between the start of its remote save and its finalizer.
\* (Violated: clearSyncState resets syncInProgress under a save in flight.)
SingleFlightUpload == Cardinality(Saving) <= 1

\* C2: in an authenticated session, N upload requests of which the later
\* ones arrive while the first is Syncing lead to exactly N remote saves: no
\* save overlaps another, none is performed twice, no request is dropped
\* (an issued request is saving, settled, in the queue or on its timer), and
\* when all N callers are settled exactly N saves were started.
ExactlyNSaves ==
    /\ Cardinality(Saving) <= 1
    /\ syncInProgress <=> Saving # {}
    /\ \A i, j \in DOMAIN saveLog : saveLog[i] = saveLog[j] => i = j
    /\ \A r \in Requests :
          /\ uploads[r].pc = "queued" => r \in Range(syncQueue)
          /\ uploads[r].pc \in {"queued", "timer"} => r \notin Range(saveLog)
          /\ uploads[r].pc \in {"saving", "done"} => r \in Range(saveLog)
    /\ (\A r \in Requests : uploads[r].pc = "done") => Len(saveLog) = MaxRequests

\* three requests: the first settled, the second saving after having waited
\* in the queue with the third, which is still queued
ExactlyNSavesWitness ==
    /\ MaxRequests >= 3
    /\ uploads[1].pc = "done"
    /\ uploads[2].pc = "saving"
    /\ saveLog = <<1, 2>>
    /\ syncQueue = <<3>>

\* C3: every upload request appended to the pending queue is eventually
\* taken from it and its caller's promise resolved, provided every remote
\* save terminates and every timer fires, whatever operations (clearSyncState
\* included) are interleaved.  (Violated: clearSyncState drops the queue.)
QueuedEventuallyResolved ==
    \A r \in Requests : (uploads[r].pc = "queued") ~> (uploads[r].pc = "done")

\* C4: queued uploads run in FIFO order of arrival: a request issued later
\* never has its remote save started before that of a request issued
\* earlier (requests are issued in the order of their numbers).
\* (Violated: a call made between the finalizer and the 100 ms timer of the
\* queue's head starts its save first.)
FifoOrder ==
    \A b, c \in Requests :
        b < c /\ c \in Range(saveLog) =>
            /\ b \in Range(saveLog)
            /\ SaveIndex(b) < SaveIndex(c)

\* requests whose continuation the step hands to setTimeout
NewlyScheduled ==
    {q \in Requests : uploads[q].pc # "timer" /\ uploads'[q].pc = "timer"}

\* C5: every upload that enters Syncing eventually leaves it (every remote
\* save terminating), its caller settled; leaving sets syncInProgress back
\* to false after a success as after a failure, and removes exactly one
\* pending request, the head of the queue if there is one, and schedules it.
FinalizerAlwaysRuns ==
    /\ [][ \A r \in Requests :
              \* the finally block of the invocation of caller r runs
              (uploads[r].pc = "saving" /\ uploads'[r].pc # "saving") =>
                  /\ uploads'[r].pc = "done"
                  /\ syncInProgress' = FALSE
                  /\ IF syncQueue = <<>>
                     THEN syncQueue' = <<>> /\ NewlyScheduled = {}
                     ELSE /\ syncQueue' = Tail(syncQueue)
                          /\ NewlyScheduled = {Head(syncQueue)} ]_vars
    /\ \A r \in Requests : (uploads[r].pc = "saving") ~> (uploads[r].pc = "done")

\* a failed save has left Syncing and scheduled the head of a queue of two
FinalizerAlwaysRunsWitness ==
    /\ MaxRequests >= 3
    /\ uploads[1].pc = "done"
    /\ delivered = Deliver("upload", 1,
           SyncResult(FALSE, <<>>, "unavailable", FALSE, "upload"))
    /\ uploads[2].pc = "timer"
    /\ syncQueue = <<3>>
    /\ ~syncInProgress

\* the realtime listener delivers the collection projects
SnapshotOf(projects) ==
    \E md \in Metadata, storeOk \in BOOLEAN, t \in Times :
        Snapshot(projects, md, storeOk, t)

\* the collection of the successful upload that settled last, if the result
\* returned last is one
UploadedLast ==
    IF /\ delivered # <<>>
       /\ delivered[1].op = "upload"
       /\ delivered[1].result.success
    THEN <<delivered[1].result.projects>>
    ELSE <<>>

\* C6: self-echo suppression: a successful syncToCloud(C) records the
\* fingerprint of C as last synced, and a subsequent snapshot with the
\* fingerprint of C (nothing having replaced that record in between)
\* neither invokes onUpdate nor writes the local replica.
SelfEchoSuppressed ==
    [][ /\ \A r \in Requests :
              (\E storeOk \in BOOLEAN, t \in Times : SaveCompletes(r, TRUE, "", storeOk, t))
                  => lastSyncedHash' = calculateHash(uploads[r].projects)
        /\ \A p \in Collections :
              /\ SnapshotOf(p)
              /\ UploadedLast # <<>>
              /\ lastSyncedHash = calculateHash(UploadedLast[1])
              /\ calculateHash(p) = calculateHash(UploadedLast[1])
              => UNCHANGED <<onUpdateLog, localStorage>> ]_vars

\* the echo of the uploaded collection arrived after the upload and was dropped
SelfEchoSuppressedWitness ==
    /\ UploadedLast # <<>>
    /\ UploadedLast[1] # <<>>
    /\ lastSnapshot = <<[projects |-> UploadedLast[1], syncing |-> FALSE,
                         forwarded |-> FALSE]>>
    /\ subscription # <<>>
    /\ subscription[1].onUpdate # Null
    /\ onUpdateLog = <<>>

\* C7: a snapshot delivered while syncInProgress is true is discarded
\* whatever its content: the local replica, lastSyncedHash and lastSyncTime
\* stay as they are and onUpdate is not called.
SnapshotWhileSyncingDiscarded ==
    [][ \A p \in Collections :
            SnapshotOf(p) /\ syncInProgress
                => UNCHANGED <<localStorage, lastSyncedHash, lastSyncTime, onUpdateLog>> ]_vars

\* a snapshot with a fingerprint other than the last synced one was dropped
\* during an upload
SnapshotWhileSyncingDiscardedWitness ==
    /\ lastSnapshot # <<>>
    /\ lastSnapshot[1].syncing
    /\ ~lastSnapshot[1].forwarded
    /\ calculateHash(lastSnapshot[1].projects) # lastSyncedHash
    /\ syncInProgress
    /\ subscription # <<>>
    /\ subscription[1].onUpdate # Null

\* the local replica of the signed-in user holds the collection projects
LocalHolds(store, projects) ==
    loadLocalProjects(store, currentUser) = JSONRoundTrip(projects)

\* C8 as stated: a snapshot delivered while no upload is Syncing and whose
\* fingerprint differs from lastSyncedHash is written to the local replica,
\* becomes the last synced fingerprint (lastSyncTime set), and onUpdate is
\* called exactly once with the collection and the delivered metadata.
\* (Violated when the storage write fails, and when no callback was given.)
ExternalChangeForwardedAlways ==
    [][ \A p \in Collections, md \in Metadata, storeOk \in BOOLEAN, t \in Times :
            /\ Snapshot(p, md, storeOk, t)
            /\ ~syncInProgress
            /\ calculateHash(p) # lastSyncedHash
            => /\ LocalHolds(localStorage', p)
               /\ lastSyncedHash' = calculateHash(p)
               /\ lastSyncTime' = t
               /\ onUpdateLog' = Append(onUpdateLog, <<p, md>>) ]_vars

\* C8, amended: such a snapshot becomes the last synced fingerprint
\* (lastSyncTime set); the local replica holds the collection unless the
\* storage write fails, in which case the store is left as it was; and
\* onUpdate, when startRealtimeSync was given one, is called exactly once
\* with the collection and the delivered metadata (no call otherwise).
ExternalChangeForwarded ==
    [][ \A p \in Collections, md \in Metadata, storeOk \in BOOLEAN, t \in Times :
            /\ Snapshot(p, md, storeOk, t)
            /\ ~syncInProgress
            /\ calculateHash(p) # lastSyncedHash
            => /\ IF storeOk THEN LocalHolds(localStorage', p)
                  ELSE localStorage' = localStorage
               /\ lastSyncedHash' = calculateHash(p)
               /\ lastSyncTime' = t
               /\ onUpdateLog' = IF subscription[1].onUpdate # Null
                                 THEN Append(onUpdateLog, <<p, md>>)
                                 ELSE onUpdateLog ]_vars

\* an external change reached the local replica and the callback, once
ExternalChangeForwardedWitness ==
    /\ lastSnapshot # <<>>
    /\ lastSnapshot[1].forwarded
    /\ ~lastSnapshot[1].syncing
    /\ lastSnapshot[1].projects # <<>>
    /\ Len(onUpdateLog) = 1
    /\ onUpdateLog[1][1] = lastSnapshot[1].projects
    /\ LocalHolds(localStorage, lastSnapshot[1].projects)
    /\ lastSyncedHash = calculateHash(lastSnapshot[1].projects)
    /\ lastSyncTime # NoTime

NotAuthenticated(direction) ==
    SyncResult(FALSE, <<>>, "Not authenticated", FALSE, direction)

\* C9: when no session is authenticated, syncToCloud and syncFromCloud
\* return success=false at once, start no remote save or fetch, and leave
\* syncInProgress, the pending queue, lastSyncedHash, lastSyncTime and the
\* local replica unchanged.
UnauthenticatedShortCircuit ==
    [][ /\ \A r \in Requests :
              /\ currentUser = Null
              /\ \E p \in Collections : SyncToCloudCall(r, p)
              => /\ delivered' = Deliver("upload", r, NotAuthenticated("upload"))
                 /\ ~delivered'[1].result.success
                 /\ uploads'[r].pc = "done"
                 /\ UNCHANGED <<saveLog, syncInProgress, syncQueue, lastSyncedHash,
                                lastSyncTime, localStorage>>
        /\ \A d \in DownloadIds :
              /\ currentUser = Null
              /\ \E m \in BOOLEAN : SyncFromCloudCall(d, m)
              => /\ delivered' = Deliver("download", d, NotAuthenticated("download"))
                 /\ ~delivered'[1].result.success
                 /\ downloads'[d].pc = "done"
                 /\ UNCHANGED <<saveLog, syncInProgress, syncQueue, lastSyncedHash,
                                lastSyncTime, localStorage>> ]_vars

\* both operations were refused without a session and nothing was started
UnauthenticatedShortCircuitWitness ==
    /\ currentUser = Null
    /\ uploads[1].pc = "done"
    /\ saveLog = <<>>
    /\ downloads[1].pc = "done"
    /\ delivered = Deliver("download", 1, NotAuthenticated("download"))
    /\ lastSyncedHash = NoHash
    /\ lastSyncTime = NoTime
    /\ \A k \in StorageKeys : localStorage[k] = <<>>

\* the remote save of caller r succeeded and the rest of syncToCloud runs
SaveSucceeds(r, storeOk, t) == SaveCompletes(r, TRUE, "", storeOk, t)

\* C10 as stated: when the remote save of syncToCloud(C) succeeds, on
\* completion lastSyncedHash is the fingerprint of C computed before the
\* save, lastSyncTime is set, the local replica holds C, and the caller
\* receives success=true with C and direction 'upload'.
\* (Violated when the storage write fails.)
UploadSuccessEffectsAlways ==
    [][ \A r \in Requests, storeOk \in BOOLEAN, t \in Times :
            SaveSucceeds(r, storeOk, t) =>
                /\ uploads[r].hash = calculateHash(uploads[r].projects)
                /\ lastSyncedHash' = uploads[r].hash
                /\ lastSyncTime' = t
                /\ LocalHolds(localStorage', uploads[r].projects)
                /\ delivered' = Deliver("upload", r,
                       [success |-> TRUE, projects |-> uploads[r].projects,
                        error |-> Null, fromCache |-> FALSE, direction |-> "upload"]) ]_vars

\* C10, amended: as stated, except that the local replica holds C unless
\* the storage write fails, in which case the store is left as it was.
UploadSuccessEffects ==
    [][ \A r \in Requests, storeOk \in BOOLEAN, t \in Times :
            SaveSucceeds(r, storeOk, t) =>
                /\ uploads[r].hash = calculateHash(uploads[r].projects)
                /\ lastSyncedHash' = uploads[r].hash
                /\ lastSyncTime' = t
                /\ IF storeOk THEN LocalHolds(localStorage', uploads[r].projects)
                   ELSE localStorage' = localStorage
                /\ delivered' = Deliver("upload", r,
                       [success |-> TRUE, projects |-> uploads[r].projects,
                        error |-> Null, fromCache |-> FALSE, direction |-> "upload"]) ]_vars

\* a non-empty collection was uploaded and mirrored into the local replica
UploadSuccessEffectsWitness ==
    /\ UploadedLast # <<>>
    /\ UploadedLast[1] # <<>>
    /\ delivered[1].result.direction = "upload"
    /\ uploads[delivered[1].id].pc = "done"
    /\ lastSyncedHash = calculateHash(UploadedLast[1])
    /\ lastSyncTime # NoTime
    /\ LocalHolds(localStorage, UploadedLast[1])

\* C11: whenever an upload or a download fails because the remote adapter
\* reports a failure, the caller receives a result with success=false and a
\* non-empty error, and the status listeners are notified of 'error'.
\* (Violated: syncFromCloud never calls notifySyncListeners.)
AdapterFailureReported ==
    [][ /\ \A r \in Requests :
              (\E o \in RemoteOutcomes, t \in Times :
                  ~o.remoteOk /\ SaveCompletes(r, o.remoteOk, o.msg, o.storeOk, t)) =>
                  /\ delivered'[1].op = "upload" /\ delivered'[1].id = r
                  /\ ~delivered'[1].result.success
                  /\ delivered'[1].result.error \notin {"", Null}
                  /\ Len(lastNotify') = 1 /\ lastNotify'[1].status = "error"
                  /\ ~lastNotify'[1].isSyncing
        /\ \A d \in DownloadIds :
              (\E o \in RemoteOutcomes, t \in Times :
                  ~o.remoteOk
                  /\ FetchCompletes(d, o.remoteOk, <<>>, FALSE, o.msg, o.storeOk, t)) =>
                  /\ delivered'[1].op = "download" /\ delivered'[1].id = d
                  /\ ~delivered'[1].result.success
                  /\ delivered'[1].result.error \notin {"", Null}
                  /\ Len(lastNotify') = 1 /\ lastNotify'[1].status = "error"
                  /\ ~lastNotify'[1].isSyncing ]_vars

\* the fetch of caller d succeeded with the remote collection
FetchSucceeds(d, remote, fromCache, storeOk, t) ==
    /\ FetchCompletes(d, TRUE, remote, fromCache, "", storeOk, t)
    /\ delivered'[1].result.success

\* what a successful syncFromCloud of caller d produces from remote
Produced(d, remote) ==
    IF ~downloads[d].mergeWithLocal \/ loadLocalProjects(localStorage, currentUser) = <<>>
    THEN remote
    ELSE mergeProjects(loadLocalProjects(localStorage, currentUser), remote,
                       currentConflictStrategy)

\* C12 as stated: a successful syncFromCloud(mergeWithLocal) produces the
\* remote collection unmodified when mergeWithLocal is false or the local
\* replica is empty, otherwise merge(local, remote) under the configured
\* strategy; the produced collection is written to the local replica,
\* lastSyncedHash becomes its fingerprint, and it is returned to the caller.
\* (Violated when the storage write fails.)
DownloadProducesAlways ==
    [][ \A d \in DownloadIds, remote \in Collections, fromCache \in BOOLEAN,
           storeOk \in BOOLEAN, t \in Times :
            FetchSucceeds(d, remote, fromCache, storeOk, t) =>
                /\ delivered'[1].result.projects = Produced(d, remote)
                /\ lastSyncedHash' = calculateHash(Produced(d, remote))
                /\ LocalHolds(localStorage', Produced(d, remote)) ]_vars

\* C12, amended: as stated, except that the produced collection is in the
\* local replica unless the storage write fails, in which case the store is
\* left as it was.
DownloadProduces ==
    [][ \A d \in DownloadIds, remote \in Collections, fromCache \in BOOLEAN,
           storeOk \in BOOLEAN, t \in Times :
            FetchSucceeds(d, remote, fromCache, storeOk, t) =>
                /\ delivered'[1].result.projects = Produced(d, remote)
                /\ lastSyncedHash' = calculateHash(Produced(d, remote))
                /\ IF storeOk THEN LocalHolds(localStorage', Produced(d, remote))
                   ELSE localStorage' = localStorage ]_vars

\* a merging download returned a non-empty collection that is now in the
\* local replica and fingerprinted
DownloadProducesWitness ==
    /\ delivered # <<>>
    /\ delivered[1].op = "download"
    /\ delivered[1].result.success
    /\ delivered[1].result.direction = "merge"
    /\ delivered[1].result.projects # <<>>
    /\ LocalHolds(localStorage, delivered[1].result.projects)
    /\ lastSyncedHash = calculateHash(delivered[1].result.projects)

(***************************************************************************)
(* The Merge Engine on its own: mergeProjects applied to two collections.  *)
(***************************************************************************)
MaxMergeLen == 2          \* records per merged collection

Rec2b == << <<"id", 2>>, <<"name", "A">>, <<"updatedAt", "2024-01-02">> >>

Ids(projects) == {Field(projects[i], "id") : i \in DOMAIN projects}

\* the record of projects with the given id
RecordOf(projects, id) ==
    projects[CHOOSE i \in DOMAIN projects : Field(projects[i], "id") = id]

UniqueIds(projects) ==
    \A i, j \in DOMAIN projects :
        Field(projects[i], "id") = Field(projects[j], "id") => i = j

\* collections of records with unique ids
MergeInputs ==
    LET \* records as the application stores them: an id, mostly an updatedAt,
        \* and application-defined fields
        MergeRecords ==
            { Rec1a, Rec1b, Rec2a, Rec2b,
              << <<"id", 1>> >>,
              << <<"id", 1>>, <<"updatedAt", "bad">> >>,
              << <<"id", 1>>, <<"updatedAt", "2024-01-01">>, <<"lineItems", <<1>> >> >>,
              << <<"id", 1>>, <<"updatedAt", "2024-01-02">>, <<"source", "A">> >>,
              << <<"id", 3>>, <<"updatedAt", "2024-01-01">> >> }
    IN  {c \in UNION {[1..n -> MergeRecords] : n \in 0..MaxMergeLen} : UniqueIds(c)}

InitMerge ==
    /\ currentUser = Null
    /\ syncInProgress = FALSE
    /\ lastSyncTime = NoTime
    /\ lastSyncedHash = NoHash
    /\ syncQueue = <<>>
    /\ realtimeUnsubscribe = FALSE
    /\ currentConflictStrategy = "latest_wins"
    /\ localStorage = [k \in StorageKeys |-> <<>>]
    /\ subscription = <<>>
    /\ uploads = [r \in Requests |-> NewUpload]
    /\ downloads = [d \in DownloadIds |-> NewDownload]
    /\ saveLog = <<>>
    /\ onUpdateLog = <<>>
    /\ lastSnapshot = <<>>
    /\ lastNotify = <<>>
    /\ delivered = <<>>
    /\ syncListeners = {}
    /\ autoSyncEnabled = TRUE
    /\ call \in {<<[fn |-> "mergeProjects", local |-> l, remote |-> r, strategy |-> s,
                    returned |-> FALSE, threw |-> FALSE, result |-> <<>>]>> :
                    l \in MergeInputs, r \in MergeInputs, s \in CONFLICT_STRATEGY}

\* mergeProjects(local, remote, strategy) runs: it returns a collection or
\* raises a TypeError
MergeProjectsCall ==
    /\ call # <<>>
    /\ call[1].fn = "mergeProjects"
    /\ ~call[1].returned /\ ~call[1].threw
    /\ LET c == call[1]
       IN  call' = IF mergeProjectsThrows(c.local, c.remote, c.strategy)
                   THEN <<[c EXCEPT !.threw = TRUE]>>
                   ELSE <<[c EXCEPT !.returned = TRUE,
                                    !.result = mergeProjects(c.local, c.remote, c.strategy)]>>
    /\ UNCHANGED <<currentUser, syncStateVars, syncListeners, autoSyncEnabled,
                   currentConflictStrategy, localStorage, subscription, uploads, downloads,
                   saveLog, onUpdateLog, lastSnapshot, lastNotify, delivered>>

NextMerge == MergeProjectsCall

SpecMerge == InitMerge /\ [][NextMerge]_vars

\* mergeProjects has returned under the given strategy
Merged(strategy) ==
    /\ call # <<>>
    /\ call[1].fn = "mergeProjects"
    /\ call[1].returned
    /\ call[1].strategy = strategy

\* C13: for all collections L and R, merge(L, R, server_wins) is R and
\* merge(L, R, local_wins) is L, records and order unchanged.
SimpleStrategies ==
    /\ Merged("server_wins") => call[1].result = call[1].remote
    /\ Merged("local_wins") => call[1].result = call[1].local

\* server_wins returned the remote collection of two records next to a
\* different local collection of two
SimpleStrategiesWitness ==
    /\ Merged("server_wins")
    /\ call[1].remote = <<Rec2b, Rec1a>>
    /\ call[1].local = <<Rec1b, Rec2a>>
    /\ call[1].result = <<Rec2b, Rec1a>>

\* updatedAt is one of the timestamps of the model
ValidDate(rec) ==
    /\ Has(rec, "updatedAt")
    /\ Get(rec, "updatedAt") \in {"2024-01-01", "2024-01-02"}

\* C14: under latest_wins, for every id present in both local and remote
\* the merged record for that id is the local record when the local
\* updatedAt is strictly newer than the remote one and the remote record
\* otherwise (equal timestamps, or no usable local timestamp).
\* (Violated: a property named source is removed from the winning record.)
LatestWins ==
    Merged("latest_wins") =>
        \A id \in Ids(call[1].local) \cap Ids(call[1].remote) :
            LET l == RecordOf(call[1].local, id)
                r == RecordOf(call[1].remote, id)
            IN  /\ Cardinality({i \in DOMAIN call[1].result :
                                   Field(call[1].result[i], "id") = id}) = 1
                /\ ValidDate(l) /\ ValidDate(r) =>
                       RecordOf(call[1].result, id) =
                           IF Get(l, "updatedAt") = "2024-01-02" /\ Get(r, "updatedAt") = "2024-01-01"
                           THEN l ELSE r
                /\ ~ValidDate(l) => RecordOf(call[1].result, id) = r

\* C15: for latest_wins, merge and manual, when local and remote have
\* disjoint id sets the merged result contains every id of local and every
\* id of remote exactly once, each with its record unchanged.
\* (Violated: a property named source is removed from every merged record.)
DisjointUnion ==
    \A s \in {"latest_wins", "merge", "manual"} :
        Merged(s) /\ Ids(call[1].local) \cap Ids(call[1].remote) = {} =>
            /\ Len(call[1].result) = Len(call[1].local) + Len(call[1].remote)
            /\ \A id \in Ids(call[1].local) :
                  /\ Cardinality({i \in DOMAIN call[1].result :
                                     Field(call[1].result[i], "id") = id}) = 1
                  /\ RecordOf(call[1].result, id) = RecordOf(call[1].local, id)
            /\ \A id \in Ids(call[1].remote) :
                  /\ Cardinality({i \in DOMAIN call[1].result :
                                     Field(call[1].result[i], "id") = id}) = 1
                  /\ RecordOf(call[1].result, id) = RecordOf(call[1].remote, id)

\* C16: id uniqueness is preserved by the Merge Engine: for every strategy
\* and every pair of collections with unique ids, the output of merge never
\* contains two records with the same id.
\* (Violated: under manual every conflicting id yields a record without id.)
MergeKeepsIdsUnique ==
    \A s \in CONFLICT_STRATEGY : Merged(s) => UniqueIds(call[1].result)

\* C17: merge is total: for every pair of collections (empty ones and
\* records lacking updatedAt or lineItems on one side included) and every
\* strategy, merge returns a collection and does not raise.
\* (Violated: the merge strategy reads remoteProject.lineItems.length.)
MergeIsTotal ==
    call # <<>> /\ call[1].fn = "mergeProjects" => ~call[1].threw

(***************************************************************************)
(* Retry loops: executeWithRetry of the remote replica adapter and         *)
(* retryOperation of the error handler.                                    *)
(***************************************************************************)
RETRY_CONFIG ==
    [maxRetries |-> 3, initialDelay |-> 1000, maxDelay |-> 10000, backoffMultiplier |-> 2]

ERROR_CATEGORY ==
    [AUTH |-> "authentication", NETWORK |-> "network", PERMISSION |-> "permission",
     DATA |-> "data", UNKNOWN |-> "unknown"]

\* the errors a remote operation raises: code and message (as its words)
OperationErrors ==
    { [code |-> "unavailable",       message |-> <<"Service", "Unavailable">>],
      [code |-> "deadline-exceeded", message |-> <<"Deadline", "exceeded">>],
      [code |-> "permission-denied", message |-> <<"Missing", "or", "insufficient", "permissions">>],
      [code |-> "unauthenticated",   message |-> <<"Request", "had", "invalid", "credentials">>],
      [code |-> "not-found",         message |-> <<"Document", "not", "found">>],
      [code |-> Undefined,           message |-> <<"Network", "request", "failed">>] }

\* the error object raised in loop iteration attempt, by the operation or by
\* the onRetry callback
Raised(e, by, attempt) ==
    [code |-> e.code, message |-> e.message, by |-> by, attempt |-> attempt]

\* code.startsWith('auth/') and code.includes('network') are decided over
\* the codes of the model
\* (the loops always pass an error object: <<>> stands for null elsewhere)
categorizeError(error) ==
    IF error.code = Undefined THEN ERROR_CATEGORY.UNKNOWN
    ELSE IF error.code \in {"auth/network-request-failed"} THEN ERROR_CATEGORY.AUTH
    ELSE IF \/ error.code \in {"unavailable", "deadline-exceeded", "cancelled"}
            \/ error.code \in {"network-error"} THEN ERROR_CATEGORY.NETWORK
    ELSE IF error.code \in {"permission-denied", "unauthenticated"} THEN ERROR_CATEGORY.PERMISSION
    ELSE IF error.code \in {"invalid-argument", "not-found", "already-exists"} THEN ERROR_CATEGORY.DATA
    ELSE ERROR_CATEGORY.UNKNOWN

RECURSIVE Pow(_, _)
Pow(b, n) == IF n = 0 THEN 1 ELSE b * Pow(b, n - 1)

\* the errors after which the loop gives up at once
NonRetryable(fn, error) ==
    IF fn = "executeWithRetry"
    THEN error.code \in {"permission-denied", "unauthenticated"}
    ELSE categorizeError(error) = ERROR_CATEGORY.PERMISSION

\* variant: the first error of the call propagates at the end
Caught_FirstError(c, error) ==
    IF NonRetryable(c.fn, error) \/ c.attempt = c.options.maxRetries
    THEN [c EXCEPT !.lastError = <<error>>, !.raised = Append(@, error),
                   !.threw = TRUE, !.thrown = <<Append(c.raised, error)[1]>>]
    ELSE [c EXCEPT !.lastError = <<error>>, !.raised = Append(@, error),
                   !.attempt = @ + 1]

\* the catch block of both loops: error is remembered; it propagates when it
\* is not retryable or when this was the last iteration
Caught(c, error) ==
    IF NonRetryable(c.fn, error) \/ c.attempt = c.options.maxRetries
    THEN [c EXCEPT !.lastError = <<error>>, !.raised = Append(@, error),
                   !.threw = TRUE, !.thrown = <<error>>]
    ELSE [c EXCEPT !.lastError = <<error>>, !.raised = Append(@, error),
                   !.attempt = @ + 1]

\* one iteration of the loop, the operation behaving as outcome; a raising
\* options.onRetry throws a plain Error without code inside the try block
RetryIteration(c, outcome) ==
    LET \* the sleep at the head of a retry iteration and, in retryOperation, the
        \* call of options.onRetry(attempt, lastError)
        b == IF c.attempt = 0 THEN c
             ELSE LET \* getBackoffDelay(attempt - 1), and the same formula in retryOperation
                      delay == c.options.initialDelay
                                  * Pow(c.options.backoffMultiplier, c.attempt - 1)
                      slept == [c EXCEPT !.delays =
                                   Append(@, IF delay < c.options.maxDelay
                                             THEN delay ELSE c.options.maxDelay)]
                  IN  IF c.fn = "retryOperation" /\ c.options.onRetry # Null
                      THEN [slept EXCEPT !.onRetryLog =
                               Append(@, <<c.attempt, c.lastError[1]>>)]
                      ELSE slept
    IN  IF c.fn = "retryOperation" /\ c.attempt > 0 /\ c.options.onRetry = "raises"
        THEN Caught(b, Raised([code |-> Undefined, message |-> <<"callback", "failed">>],
                              "onRetry", c.attempt))
        ELSE LET called == [b EXCEPT !.operationCalls = @ + 1]
             IN  IF outcome.ok
                 THEN [called EXCEPT !.returned = TRUE]
                 ELSE Caught(called, Raised(outcome.error, "operation", c.attempt))

NewRetryCall(fn, options) ==
    [fn |-> fn, options |-> options, attempt |-> 0, lastError |-> <<>>,
     operationCalls |-> 0, raised |-> <<>>, delays |-> <<>>, onRetryLog |-> <<>>,
     returned |-> FALSE, threw |-> FALSE, thrown |-> <<>>]

\* the engine at rest, as Init leaves it, apart from the call examined
EngineAtRest ==
    /\ currentUser = Null
    /\ syncInProgress = FALSE
    /\ lastSyncTime = NoTime
    /\ lastSyncedHash = NoHash
    /\ syncQueue = <<>>
    /\ realtimeUnsubscribe = FALSE
    /\ currentConflictStrategy = "latest_wins"
    /\ localStorage = [k \in StorageKeys |-> <<>>]
    /\ subscription = <<>>
    /\ uploads = [r \in Requests |-> NewUpload]
    /\ downloads = [d \in DownloadIds |-> NewDownload]
    /\ saveLog = <<>>
    /\ onUpdateLog = <<>>
    /\ lastSnapshot = <<>>
    /\ lastNotify = <<>>
    /\ delivered = <<>>
    /\ syncListeners = {}
    /\ autoSyncEnabled = TRUE

\* executeWithRetry, or retryOperation with its default options and, as
\* options.onRetry, nothing, a callback that returns or a callback that raises
InitRetry ==
    /\ EngineAtRest
    /\ call \in {<<NewRetryCall("executeWithRetry", RETRY_CONFIG)>>}
               \cup {<<NewRetryCall("retryOperation",
                                    [maxRetries |-> 3, initialDelay |-> 1000,
                                     maxDelay |-> 10000, backoffMultiplier |-> 2,
                                     onRetry |-> cb])>> : cb \in {Null, "returns", "raises"}}

\* the loop of executeWithRetry / retryOperation runs one iteration
RetryStep(outcome) ==
    /\ call # <<>>
    /\ call[1].fn \in {"executeWithRetry", "retryOperation"}
    /\ ~call[1].returned /\ ~call[1].threw
    /\ call[1].attempt <= call[1].options.maxRetries
    /\ call' = <<RetryIteration(call[1], outcome)>>
    /\ UNCHANGED <<currentUser, syncStateVars, syncListeners, autoSyncEnabled,
                   currentConflictStrategy, localStorage, subscription, uploads, downloads,
                   saveLog, onUpdateLog, lastSnapshot, lastNotify, delivered>>

\* a call of the operation resolves or raises one of the errors
NextRetry ==
    \E outcome \in {[ok |-> TRUE]} \cup {[ok |-> FALSE, error |-> e] : e \in OperationErrors} :
        RetryStep(outcome)

SpecRetry == InitRetry /\ [][NextRetry]_vars

\* C18: a remote operation that fails on every attempt with a
\* network-classified error is attempted exactly maxRetries + 1 times and the
\* loop then fails; an operation that fails with a permission-classified
\* error (permission-denied or unauthenticated) is attempted exactly once.
\* (Violated by retryOperation when options.onRetry raises: the operation is
\* attempted once and the remaining iterations consume the callback's error.)
RetryExhaustion ==
    /\ call # <<>> /\ call[1].fn \in {"executeWithRetry", "retryOperation"}
       => call[1].operationCalls <= call[1].options.maxRetries + 1
    /\ call # <<>> /\ call[1].fn \in {"executeWithRetry", "retryOperation"} /\ call[1].threw =>
        /\ \A i \in DOMAIN call[1].raised :
              call[1].raised[i].by = "operation"
              /\ categorizeError(call[1].raised[i]) = ERROR_CATEGORY.PERMISSION
              => call[1].operationCalls = i /\ i = Len(call[1].raised)
        /\ call[1].raised[1].by = "operation"
           /\ categorizeError(call[1].raised[1]) = ERROR_CATEGORY.PERMISSION
           => call[1].operationCalls = 1
        /\ (\A i \in 1..call[1].operationCalls :
                /\ call[1].raised[i].by = "operation"
                /\ categorizeError(call[1].raised[i]) = ERROR_CATEGORY.NETWORK)
           => call[1].operationCalls = call[1].options.maxRetries + 1

(***************************************************************************)
(* fetchDocument: server read with retries, cache read when offline.       *)
(***************************************************************************)
\* String.prototype.toLowerCase on the words of the messages above
ToLowerCase(word) ==
    CASE word = "Service"     -> "service"
      [] word = "Unavailable" -> "unavailable"
      [] word = "Deadline"    -> "deadline"
      [] word = "Missing"     -> "missing"
      [] word = "Request"     -> "request"
      [] word = "Document"    -> "document"
      [] word = "Network"     -> "network"
      [] OTHER                -> word

\* message.toLowerCase().includes(word)
MessageIncludes(message, word) ==
    \E i \in DOMAIN message : ToLowerCase(message[i]) = word

isOfflineError(error) ==
    LET code == IF error.code = Undefined THEN "" ELSE error.code
    IN  \/ code = "unavailable"
        \/ code = "offline"
        \/ code = "failed-precondition"
        \/ MessageIncludes(error.message, "offline")
        \/ MessageIncludes(error.message, "network")
        \/ MessageIncludes(error.message, "unavailable")

\* variant: the cache is tried after every server error
TryCache_Always(serverError) == TRUE

\* the guard of the cache read
TryCache(serverError) == isOfflineError(serverError)

\* what docRef.get resolves with: a snapshot of an existing document (its
\* data: the stored collection) or of a missing one
DocumentSnapshots ==
    {[exists |-> FALSE, data |-> <<>>]} \cup {[exists |-> TRUE, data |-> d] : d \in {<<Rec1a>>, <<Rec1b>>}}

\* the result objects of fetchDocument (<<>>: null)
FetchSuccess(snapshot, fromCache) ==
    [success |-> TRUE, data |-> IF snapshot.exists THEN <<snapshot.data>> ELSE <<>>,
     error |-> <<>>, fromCache |-> fromCache]

FetchFailure(error) ==
    [success |-> FALSE, data |-> <<>>,
     error |-> <<IF error.message = <<>> THEN <<"Failed", "to", "fetch", "document">>
                 ELSE error.message>>,
     fromCache |-> FALSE]

\* fetchDocument is about to run, with Firebase initialized or not
InitFetch ==
    /\ EngineAtRest
    /\ call \in {<<[fn |-> "fetchDocument", initialized |-> i, pc |-> "start",
                    server |-> NewRetryCall("executeWithRetry", RETRY_CONFIG),
                    reads |-> <<>>, cache |-> <<>>, result |-> <<>>]>> : i \in BOOLEAN}

FetchCallAt(pc) ==
    /\ call # <<>>
    /\ call[1].fn = "fetchDocument"
    /\ call[1].pc = pc

\* fetchDocument is called: the document reference is obtained, or
\* getFirestore raises (Firebase not initialized) and the outer catch
\* returns the failure
FetchDocumentCall ==
    /\ FetchCallAt("start")
    /\ call' = IF call[1].initialized
               THEN <<[call[1] EXCEPT !.pc = "server"]>>
               ELSE <<[call[1] EXCEPT !.pc = "done",
                                      !.result = <<FetchFailure(
                                          [code |-> Undefined,
                                           message |-> <<"Firebase", "not", "initialized">>])>>]>>
    /\ UNCHANGED <<currentUser, syncStateVars, syncListeners, autoSyncEnabled,
                   currentConflictStrategy, localStorage, subscription, uploads, downloads,
                   saveLog, onUpdateLog, lastSnapshot, lastNotify, delivered>>

\* one attempt of docRef.get({source: 'server'}) under executeWithRetry, and
\* what fetchDocument does when the retry loop has returned or raised
FetchServerStep(outcome) ==
    /\ FetchCallAt("server")
    /\ LET c == call[1]
           server == RetryIteration(c.server, outcome)
           read == [c EXCEPT !.server = server,
                             !.reads = IF server.operationCalls > c.server.operationCalls
                                       THEN Append(@, "server") ELSE @]
       IN  call' =
             IF server.returned
             THEN <<[read EXCEPT !.pc = "done",
                                 !.result = <<FetchSuccess(outcome.snapshot, FALSE)>>]>>
             ELSE IF server.threw
             THEN IF TryCache(server.thrown[1])
                  THEN <<[read EXCEPT !.pc = "cache"]>>
                  ELSE <<[read EXCEPT !.pc = "done",
                                      !.result = <<FetchFailure(server.thrown[1])>>]>>
             ELSE <<read>>
    /\ UNCHANGED <<currentUser, syncStateVars, syncListeners, autoSyncEnabled,
                   currentConflictStrategy, localStorage, subscription, uploads, downloads,
                   saveLog, onUpdateLog, lastSnapshot, lastNotify, delivered>>

\* docRef.get({source: 'cache'}): a hit is returned, otherwise the server
\* error is raised again and reported
FetchCacheStep(outcome) ==
    /\ FetchCallAt("cache")
    /\ LET c == call[1]
           read == [c EXCEPT !.pc = "done", !.reads = Append(@, "cache"),
                             !.cache = <<outcome>>]
       IN  call' = IF outcome.ok /\ outcome.snapshot.exists
                   THEN <<[read EXCEPT !.result = <<FetchSuccess(outcome.snapshot, TRUE)>>]>>
                   ELSE <<[read EXCEPT !.result = <<FetchFailure(c.server.thrown[1])>>]>>
    /\ UNCHANGED <<currentUser, syncStateVars, syncListeners, autoSyncEnabled,
                   currentConflictStrategy, localStorage, subscription, uploads, downloads,
                   saveLog, onUpdateLog, lastSnapshot, lastNotify, delivered>>

NextFetch ==
    \/ FetchDocumentCall
    \/ \E outcome \in {[ok |-> TRUE, snapshot |-> s] : s \in DocumentSnapshots}
                       \cup {[ok |-> FALSE, error |-> e] : e \in OperationErrors} :
          FetchServerStep(outcome)
    \/ \E outcome \in {[ok |-> TRUE, snapshot |-> s] : s \in DocumentSnapshots}
                       \cup {[ok |-> FALSE,
                              error |-> [code |-> "unavailable",
                                         message |-> <<"Failed", "to", "get", "document",
                                                       "from", "cache">>]]} :
          FetchCacheStep(outcome)

SpecFetch == InitFetch /\ [][NextFetch]_vars

\* C19: fetchDocument attempts the server read first (with retries); a cache
\* read is attempted only if the server read finally failed with an
\* offline-classified error; a cache hit yields success with fromCache = true;
\* if the cache read fails or finds no document, or the server error is not
\* offline-classified, the result is a failure carrying the server error.
FetchPolicy ==
    call # <<>> /\ call[1].fn = "fetchDocument" =>
        LET c == call[1]
            serverError == c.server.thrown[1]
        IN  /\ \A i \in DOMAIN c.reads :
                  c.reads[i] = "cache" =>
                      /\ i = Len(c.reads) /\ i > 1
                      /\ \A j \in 1..(i - 1) : c.reads[j] = "server"
            /\ c.pc = "cache" \/ c.cache # <<>> =>
                  /\ c.server.threw
                  /\ isOfflineError(serverError)
                  /\ serverError = c.server.raised[Len(c.server.raised)]
            /\ c.server.threw /\ ~isOfflineError(serverError) =>
                  /\ c.pc = "done" /\ c.cache = <<>>
                  /\ c.result = <<[success |-> FALSE, data |-> <<>>,
                                   error |-> <<serverError.message>>, fromCache |-> FALSE]>>
            /\ c.cache # <<>> =>
                  /\ c.pc = "done"
                  /\ c.result =
                        IF c.cache[1].ok /\ c.cache[1].snapshot.exists
                        THEN <<[success |-> TRUE, data |-> <<c.cache[1].snapshot.data>>,
                                error |-> <<>>, fromCache |-> TRUE]>>
                        ELSE <<[success |-> FALSE, data |-> <<>>,
                                error |-> <<serverError.message>>, fromCache |-> FALSE]>>
            /\ c.server.returned =>
                  /\ c.pc = "done" /\ c.cache = <<>>
                  /\ c.result[1].success /\ ~c.result[1].fromCache

\* after four server reads that failed as unavailable the document came from
\* the cache
FetchPolicyWitness ==
    /\ FetchCallAt("done")
    /\ call[1].reads = <<"server", "server", "server", "server", "cache">>
    /\ call[1].server.thrown[1].code = "unavailable"
    /\ call[1].result[1].success
    /\ call[1].result[1].fromCache
    /\ call[1].result[1].data = <<<<Rec1a>>>>

(***************************************************************************)
(* Status listeners, the auto-sync switch and clearSyncState.              *)
(***************************************************************************)
\* the callbacks given to onSyncStatusChange
StatusListeners == {"onStatus"}

\* onSyncStatusChange(listener): the listener joins the set
onSyncStatusChange(listener) ==
    /\ syncListeners' = syncListeners \cup {listener}
    /\ UNCHANGED <<call, autoSyncEnabled, currentUser, syncStateVars, currentConflictStrategy,
                   localStorage, subscription, uploads, downloads, saveLog, onUpdateLog,
                   lastSnapshot, lastNotify, delivered>>

\* the function onSyncStatusChange returned is invoked: the listener leaves
RemoveStatusListener(listener) ==
    /\ listener \in syncListeners
    /\ syncListeners' = syncListeners \ {listener}
    /\ UNCHANGED <<call, autoSyncEnabled, currentUser, syncStateVars, currentConflictStrategy,
                   localStorage, subscription, uploads, downloads, saveLog, onUpdateLog,
                   lastSnapshot, lastNotify, delivered>>

setAutoSync(enabled) ==
    /\ autoSyncEnabled' = enabled
    /\ UNCHANGED <<call, syncListeners, currentUser, syncStateVars, currentConflictStrategy,
                   localStorage, subscription, uploads, downloads, saveLog, onUpdateLog,
                   lastSnapshot, lastNotify, delivered>>

\* clearSyncState next to the upload queue and the settings, in a session
\* whose realtime subscription is active
NextClear ==
    \/ UploadSteps(MaxWatchedRequests)
    \/ clearSyncState
    \/ \E l \in StatusListeners : onSyncStatusChange(l)
    \/ \E l \in StatusListeners : RemoveStatusListener(l)
    \/ \E enabled \in BOOLEAN : setAutoSync(enabled)
    \/ \E s \in {"latest_wins", "manual"} : setConflictStrategy(s)

SpecClear == InitSession /\ [][NextClear]_vars

\* C20: after clearSyncState the pending queue is empty, lastSyncedHash and
\* lastSyncTime are empty, syncInProgress is false and no realtime
\* subscription is active; the registered status listeners, autoSyncEnabled
\* and the conflict strategy are left unchanged.
ClearSyncStateEffects ==
    [][ clearSyncState =>
            /\ syncQueue' = <<>>
            /\ lastSyncedHash' = NoHash
            /\ lastSyncTime' = NoTime
            /\ syncInProgress' = FALSE
            /\ subscription' = <<>>
            /\ realtimeUnsubscribe' = FALSE
            /\ syncListeners' = syncListeners
            /\ autoSyncEnabled' = autoSyncEnabled
            /\ currentConflictStrategy' = currentConflictStrategy ]_vars

\* a queued request was dropped and the fingerprint of a successful upload
\* forgotten while a listener, the switched-off auto-sync and the chosen
\* strategy remain
ClearSyncStateEffectsWitness ==
    /\ \E r \in Requests : uploads[r].pc = "queued"
    /\ delivered # <<>>
    /\ delivered[1].result.direction = "upload"
    /\ delivered[1].result.success
    /\ syncQueue = <<>>
    /\ lastSyncedHash = NoHash
    /\ lastSyncTime = NoTime
    /\ ~syncInProgress
    /\ subscription = <<>>
    /\ ~realtimeUnsubscribe
    /\ syncListeners = StatusListeners
    /\ ~autoSyncEnabled
    /\ currentConflictStrategy = "manual"

(***************************************************************************)
(* The local replica adapter and calculateHash called on their own.        *)
(***************************************************************************)
\* a session of some user or none; each key of the store has no entry, a
\* collection saved earlier, or a text that JSON.parse refuses or turns into
\* something that is not an array
InitLocal ==
    /\ currentUser \in Users \cup {Null}
    /\ syncInProgress = FALSE
    /\ lastSyncTime = NoTime
    /\ lastSyncedHash = NoHash
    /\ syncQueue = <<>>
    /\ realtimeUnsubscribe = FALSE
    /\ currentConflictStrategy = "latest_wins"
    /\ localStorage \in
          [StorageKeys ->
              {<<>>, <<[kind |-> "array", value |-> <<Rec2a>>]>>,
               <<[kind |-> "object", value |-> <<Rec2a>>]>>,
               <<[kind |-> "null", value |-> <<>>]>>,
               <<[kind |-> "unparseable", value |-> <<>>]>>,
               <<[kind |-> "emptyString", value |-> <<>>]>>}]
    /\ subscription = <<>>
    /\ uploads = [r \in Requests |-> NewUpload]
    /\ downloads = [d \in DownloadIds |-> NewDownload]
    /\ saveLog = <<>>
    /\ onUpdateLog = <<>>
    /\ lastSnapshot = <<>>
    /\ lastNotify = <<>>
    /\ delivered = <<>>
    /\ syncListeners = {}
    /\ autoSyncEnabled = TRUE
    /\ call = <<>>

\* loadLocalProjects() is called and returns
LoadLocalCall ==
    /\ call' = <<[fn |-> "loadLocalProjects", projects |-> <<>>, writeOk |-> TRUE,
                  threw |-> FALSE,
                  result |-> <<loadLocalProjects(localStorage, currentUser)>>]>>
    /\ UNCHANGED <<currentUser, syncStateVars, syncListeners, autoSyncEnabled,
                   currentConflictStrategy, localStorage, subscription, uploads, downloads,
                   saveLog, onUpdateLog, lastSnapshot, lastNotify, delivered>>

\* saveLocalProjects(projects) is called: it returns true after setItem, and
\* false from its catch block when setItem raises
SaveLocalCall(projects, ok) ==
    /\ localStorage' = saveLocalProjects(localStorage, currentUser, projects, ok)
    /\ call' = <<[fn |-> "saveLocalProjects", projects |-> projects, writeOk |-> ok,
                  threw |-> FALSE, result |-> <<ok>>]>>
    /\ UNCHANGED <<currentUser, syncStateVars, syncListeners, autoSyncEnabled,
                   currentConflictStrategy, subscription, uploads, downloads, saveLog,
                   onUpdateLog, lastSnapshot, lastNotify, delivered>>

\* calculateHash is called with arg: <<>> for an absent collection (null
\* or undefined), <<projects>> for an array.  A call that follows a call
\* with the same argument is recorded next to it.
CalculateHashCall(arg) ==
    /\ LET hash == IF arg = <<>> THEN EmptySentinel ELSE calculateHash(arg[1])
           again == /\ call # <<>>
                    /\ call[1].fn = "calculateHash"
                    /\ call[1].projects = arg
                    /\ Len(call[1].result) < 2
       IN  call' = <<[fn |-> "calculateHash", projects |-> arg, writeOk |-> TRUE,
                      threw |-> FALSE,
                      result |-> IF again THEN Append(call[1].result, hash) ELSE <<hash>>]>>
    /\ UNCHANGED <<currentUser, syncStateVars, syncListeners, autoSyncEnabled,
                   currentConflictStrategy, localStorage, subscription, uploads, downloads,
                   saveLog, onUpdateLog, lastSnapshot, lastNotify, delivered>>

\* the collections saved include a record with a property whose value is
\* undefined (the field-level merge produces such records)
NextLocal ==
    \/ LoadLocalCall
    \/ \E arg \in {<<>>} \cup
               {<<c>> : c \in Collections \cup
                          {<<Rec1a, Rec2a>>,
                           << << <<"id", 1>>, <<"name", "AAeuufj">> >> >>}} :
          CalculateHashCall(arg)
    \/ \E ok \in BOOLEAN,
          p \in Collections \cup {<< << <<"id", 2>>, <<"updatedAt", Undefined>> >> >>} :
          SaveLocalCall(p, ok)

SpecLocal == InitLocal /\ [][NextLocal]_vars

\* C21: the local replica adapter never raises: loadLocalProjects returns
\* the empty collection when the stored entry is missing, unparseable or not
\* an array; saveLocalProjects returns false when the storage write fails and
\* true when it succeeds; and after a successful save a load under the same
\* user returns the saved collection (as JSON represents it: a property
\* whose value is undefined counts as absent).
LocalAdapterNeverRaises ==
    call # <<>> /\ call[1].fn \in {"loadLocalProjects", "saveLocalProjects"} =>
        LET stored == localStorage[getStorageKey(currentUser)]
        IN  /\ ~call[1].threw
            /\ call[1].fn = "loadLocalProjects" =>
                  /\ stored = <<>> \/ stored[1].kind # "array" => call[1].result = << <<>> >>
                  /\ stored # <<>> /\ stored[1].kind = "array" =>
                        call[1].result = <<stored[1].value>>
            /\ call[1].fn = "saveLocalProjects" =>
                  /\ call[1].result = <<call[1].writeOk>>
                  /\ call[1].writeOk =>
                        /\ stored = <<[kind |-> "array",
                                       value |-> JSONRoundTrip(call[1].projects)]>>
                        /\ \A i \in DOMAIN call[1].projects :
                              \A k \in {"id", "updatedAt"} :
                                  Field(stored[1].value[i], k) = Field(call[1].projects[i], k)

\* a signed-in user has loaded the collection saved before, while the key
\* of the anonymous session holds an unparseable text
LocalAdapterNeverRaisesWitness ==
    /\ call # <<>>
    /\ call[1].fn = "loadLocalProjects"
    /\ call[1].result = << <<Rec1b>> >>
    /\ currentUser \in Users
    /\ localStorage[getStorageKey(Null)] = <<[kind |-> "unparseable", value |-> <<>>]>>

FairSpecRealtime == SpecRealtime /\ UploadFairness

\* C23: every genuine external change delivered by the subscription (a
\* snapshot whose collection no upload of this engine carries and whose
\* fingerprint differs from lastSyncedHash) is eventually forwarded to
\* onUpdate, also when it is delivered while an upload is Syncing.  Stated
\* here for a subscription that was given a callback, and for the callback
\* alone (the claim adds the local replica).
\* (Violated: a snapshot delivered while syncInProgress is set is dropped.)
ExternalChangeEventuallyForwarded ==
    \A p \in Collections :
        [] ( ( /\ lastSnapshot # <<>>
               /\ lastSnapshot[1].projects = p
               /\ calculateHash(p) # lastSyncedHash \/ lastSnapshot[1].forwarded
               /\ \A r \in Requests : uploads[r].pc = "new" \/ uploads[r].projects # p
               /\ subscription # <<>>
               /\ subscription[1].onUpdate # Null )
             => <>(\E i \in DOMAIN onUpdateLog : onUpdateLog[i][1] = p) )


(***************************************************************************)
(* The status notifications of an upload.                                  *)
(***************************************************************************)
\* C24: status notifications follow Idle -> Syncing -> {Success, Error} ->
\* Idle.  The step in which an upload enters Syncing sends exactly one
\* notification, ('syncing', true), with syncInProgress set; as long as the
\* upload awaits its save syncInProgress stays set and nothing else is
\* notified; the step in which it leaves Syncing sends exactly one
\* notification, ('success', false) when the caller's result is a success
\* and ('error', false) otherwise, and clears syncInProgress; no other step
\* notifies.
StatusStateMachine ==
    [][ /\ \A r \in Requests :
              /\ (uploads[r].pc # "saving" /\ uploads'[r].pc = "saving") =>
                    /\ ~syncInProgress /\ syncInProgress'
                    /\ Len(lastNotify') = 1
                    /\ lastNotify'[1].status = "syncing"
                    /\ lastNotify'[1].isSyncing
              /\ (uploads[r].pc = "saving" /\ uploads'[r].pc = "saving") =>
                    /\ syncInProgress /\ syncInProgress'
                    /\ lastNotify' = lastNotify
              /\ (uploads[r].pc = "saving" /\ uploads'[r].pc # "saving") =>
                    /\ Len(lastNotify) = 1 /\ lastNotify[1].status = "syncing"
                    /\ syncInProgress /\ ~syncInProgress'
                    /\ Len(lastNotify') = 1
                    /\ lastNotify'[1].status \in {"success", "error"}
                    /\ ~lastNotify'[1].isSyncing
                    /\ delivered'[1].op = "upload" /\ delivered'[1].id = r
                    /\ (lastNotify'[1].status = "success") <=> delivered'[1].result.success
        /\ lastNotify' # lastNotify =>
              \E r \in Requests : (uploads[r].pc = "saving") # (uploads'[r].pc = "saving")
      ]_vars

\* a failed upload after a successful one: the second went through
\* 'syncing' and then 'error', and syncInProgress is cleared
StatusStateMachineWitness ==
    /\ ~syncInProgress
    /\ lastSyncTime # NoTime
    /\ Len(lastNotify) = 1 /\ lastNotify[1].status = "error"
    /\ delivered # <<>> /\ delivered[1].op = "upload" /\ ~delivered[1].result.success
    /\ delivered[1].result.error \notin {"", Null, "Not authenticated"}
    /\ Len(saveLog) >= 2


(***************************************************************************)
(* Downloads next to the single-flight mechanism of the uploads.           *)
(***************************************************************************)
\* variant: a running download counts as syncing
getSyncStatus_CountsDownloads ==
    [isSyncing |-> syncInProgress \/ \E d \in DownloadIds : downloads[d].pc = "fetching",
     lastSyncTime |-> lastSyncTime,
     autoSyncEnabled |-> autoSyncEnabled]

\* getSyncStatus()
getSyncStatus ==
    [isSyncing |-> syncInProgress,
     lastSyncTime |-> lastSyncTime,
     autoSyncEnabled |-> autoSyncEnabled]

\* overlapping downloads next to queued uploads in an authenticated session
NextOverlap == DownloadSteps(MaxDownloads) \/ UploadSteps(MaxWatchedRequests)

SpecOverlap == InitSession /\ [][NextOverlap]_vars

\* C25: syncFromCloud does not use the single-flight mechanism.  A call of
\* syncFromCloud in an authenticated session goes straight to its fetch,
\* whatever syncInProgress holds and whatever other download is running; no
\* step of a download (its call, the return of its fetch) changes
\* syncInProgress or the pending queue, and getSyncStatus().isSyncing is the
\* same before and after it.
DownloadBypassesSingleFlight ==
    [][ \A d \in DownloadIds :
          /\ (\E m \in BOOLEAN : SyncFromCloudCall(d, m)) =>
                /\ isAuthenticated => downloads'[d].pc = "fetching"
                /\ syncInProgress' = syncInProgress
                /\ syncQueue' = syncQueue
                /\ getSyncStatus'.isSyncing = getSyncStatus.isSyncing
          /\ (downloads[d].pc = "fetching" /\ downloads'[d].pc # "fetching") =>
                /\ syncInProgress' = syncInProgress
                /\ syncQueue' = syncQueue
                /\ getSyncStatus'.isSyncing = getSyncStatus.isSyncing ]_vars

\* two downloads are fetching while an upload awaits its save and another
\* upload waits in the queue
DownloadBypassesSingleFlightWitness ==
    /\ \A d \in 1..2 : downloads[d].pc = "fetching"
    /\ \E r \in Requests : uploads[r].pc = "saving"
    /\ syncInProgress
    /\ getSyncStatus.isSyncing
    /\ Len(syncQueue) = 1


(***************************************************************************)
(* Timestamps without a value, the field-level merge and manual.           *)
(***************************************************************************)
\* C26: under latest_wins a missing or unparseable updatedAt counts as
\* epoch 0 on either side: for an id present in both collections a local
\* record with a valid timestamp wins over a remote record whose updatedAt
\* is missing or unparseable, and a local record whose updatedAt is missing
\* or unparseable never wins.  (The winner is compared without the property
\* named source, which the engine removes from every record.)
\* (Violated: an unparseable timestamp is NaN, and no time is later than NaN.)
MissingTimestampIsEpoch ==
    Merged("latest_wins") =>
        \A id \in Ids(call[1].local) \cap Ids(call[1].remote) :
            LET l == RecordOf(call[1].local, id)
                r == RecordOf(call[1].remote, id)
                m == RecordOf(call[1].result, id)
            IN  /\ ValidDate(l) /\ ~ValidDate(r) => m = RemoveField(l, "source")
                /\ ~ValidDate(l) => m = RemoveField(r, "source")


\* C27: under the field-level merge strategy, for every id present in both
\* collections the merged record starts from the remote record and, for
\* each field of the local record: updatedAt becomes the newer of the two
\* timestamps (a missing or unparseable one counting as epoch 0, the remote
\* one on a tie); lineItems is replaced by the local list only if it has
\* strictly more entries than the remote list; any other field takes the
\* local value only if the remote value is falsy and the local one is not.
\* Fields present only on the remote record are kept, and ids present in
\* only one collection are included verbatim.
\* (Violated: a property named source is removed from every merged record,
\* and an unparseable remote timestamp is kept as the newer one.)
FieldLevelMerge ==
    Merged("merge") =>
        \A id \in Ids(call[1].local) \cup Ids(call[1].remote) :
            LET inLocal  == id \in Ids(call[1].local)
                inRemote == id \in Ids(call[1].remote)
                m == RecordOf(call[1].result, id)
                Keys(rec) == {rec[i][1] : i \in DOMAIN rec}
            IN  /\ Cardinality({i \in DOMAIN call[1].result :
                                   Field(call[1].result[i], "id") = id}) = 1
                /\ inLocal /\ ~inRemote =>
                      m = RecordOf(call[1].local, id)
                /\ inRemote /\ ~inLocal =>
                      m = RecordOf(call[1].remote, id)
                /\ inLocal /\ inRemote =>
                      LET l == RecordOf(call[1].local, id)
                          r == RecordOf(call[1].remote, id)
                          localNewer ==
                              /\ ValidDate(l)
                              /\ \/ ~ValidDate(r)
                                 \/ /\ Get(l, "updatedAt") = "2024-01-02"
                                    /\ Get(r, "updatedAt") = "2024-01-01"
                      IN  /\ Keys(m) = Keys(l) \cup Keys(r)
                          /\ \A k \in Keys(r) \ Keys(l) : Get(m, k) = Get(r, k)
                          /\ \A k \in Keys(l) :
                                Field(m, k) =
                                    CASE k = "updatedAt" ->
                                           IF localNewer THEN Get(l, k) ELSE Field(r, k)
                                      [] k = "lineItems" ->
                                           IF Len(Get(l, k)) > Len(Get(r, k))
                                           THEN Get(l, k) ELSE Get(r, k)
                                      [] OTHER ->
                                           IF Truthy(l, k) /\ ~Truthy(r, k)
                                           THEN Get(l, k) ELSE Field(r, k)


\* C28: under manual an id present in both collections is not silently
\* resolved: both versions reach the caller and the record keeps its id.
\* Stated as what every way of surfacing both versions has in common: the
\* result holds a record with that id, and that record carries the fields
\* of the local or of the remote version.
\* (Violated: the result holds the empty record {} instead.)
ManualSurfacesBoth ==
    Merged("manual") =>
        \A id \in Ids(call[1].local) \cap Ids(call[1].remote) :
            \E i \in DOMAIN call[1].result :
                /\ Field(call[1].result[i], "id") = id
                /\ \/ \A j \in DOMAIN RecordOf(call[1].local, id) :
                         \E k \in DOMAIN call[1].result[i] :
                             call[1].result[i][k][1] = RecordOf(call[1].local, id)[j][1]
                   \/ \A j \in DOMAIN RecordOf(call[1].remote, id) :
                         \E k \in DOMAIN call[1].result[i] :
                             call[1].result[i][k][1] = RecordOf(call[1].remote, id)[j][1]


(***************************************************************************)
(* The error that leaves a retry loop.                                     *)
(***************************************************************************)
\* C29: the error that propagates from executeWithRetry or retryOperation
\* is the error raised in the last iteration of the loop, never that of an
\* earlier one: when the cap is exhausted it is the error of iteration
\* maxRetries, after maxRetries delays; a permission-classified error
\* propagates as the very error that was raised, with no delay and no
\* attempt after it.
LastErrorPropagates ==
    call # <<>> /\ call[1].fn \in {"executeWithRetry", "retryOperation"} =>
        LET c == call[1]
            n == Len(c.raised)
            permission(e) == e.code \in {"permission-denied", "unauthenticated"}
        IN  /\ \A i \in 1..n : c.raised[i].attempt = i - 1
            /\ \A i \in 1..n : permission(c.raised[i]) => i = n /\ c.threw
            /\ c.threw =>
                  /\ n > 0
                  /\ c.thrown = <<c.raised[n]>>
                  /\ Len(c.delays) = c.raised[n].attempt
                  /\ c.operationCalls <= n
                  /\ ~c.returned
                  /\ ~permission(c.raised[n]) =>
                        /\ c.raised[n].attempt = c.options.maxRetries
                        /\ n = c.options.maxRetries + 1
            /\ ~c.threw => c.thrown = <<>>

\* the cap was exhausted by four different failures of the operation and
\* the last of them left the loop; or a permission error on the second
\* attempt left it after a single delay
LastErrorPropagatesWitness ==
    /\ call # <<>>
    /\ call[1].fn \in {"executeWithRetry", "retryOperation"}
    /\ call[1].threw
    /\ \/ /\ Len(call[1].raised) = 4
          /\ call[1].operationCalls = 4
          /\ call[1].raised[1].code = "unavailable"
          /\ call[1].raised[3].code = "not-found"
          /\ call[1].raised[4].code = "deadline-exceeded"
          /\ call[1].thrown[1].code = "deadline-exceeded"
          /\ call[1].thrown[1].attempt = 3
          /\ call[1].delays = <<1000, 2000, 4000>>
       \/ /\ Len(call[1].raised) = 2
          /\ call[1].raised[1].code = "unavailable"
          /\ call[1].thrown[1].code = "permission-denied"
          /\ call[1].thrown[1].attempt = 1
          /\ call[1].delays = <<1000>>
          /\ call[1].operationCalls = 2


(***************************************************************************)
(* Status listeners, raising ones included, next to the uploads.           *)
(***************************************************************************)
\* uploads in an authenticated session while listeners, one of which
\* raises on every call, are registered and removed
NextListeners ==
    \/ UploadSteps(MaxWatchedRequests)
    \/ \E l \in StatusListeners \cup RaisingListeners : onSyncStatusChange(l)
    \/ \E l \in StatusListeners \cup RaisingListeners : RemoveStatusListener(l)

SpecListeners == InitSession /\ [][NextListeners]_vars

\* C30: listener isolation.  Every step of an upload that notifies (it
\* enters or leaves the awaited save) sends one notification in which every
\* registered listener, and no other, is invoked exactly once, whether or
\* not a registered listener raises; the result of the upload is a success
\* exactly when its save succeeded and syncInProgress is cleared when it
\* leaves the save; a listener is out of the set once the function returned
\* by onSyncStatusChange ran, so no later notification invokes it.
ListenerIsolation ==
    [][ /\ \A r \in Requests :
              (uploads[r].pc = "saving") # (uploads'[r].pc = "saving") =>
                  /\ Len(lastNotify') = 1
                  /\ DOMAIN lastNotify'[1].invoked = syncListeners
                  /\ \A l \in syncListeners : lastNotify'[1].invoked[l] = 1
        /\ \A r \in Requests, o \in RemoteOutcomes, t \in Times :
              SaveCompletes(r, o.remoteOk, o.msg, o.storeOk, t) =>
                  /\ delivered'[1].result.success = o.remoteOk
                  /\ ~syncInProgress'
                  /\ uploads'[r].pc = "done"
        /\ \A l \in StatusListeners \cup RaisingListeners :
              RemoveStatusListener(l) => l \notin syncListeners'
      ]_vars

\* the second upload succeeded and its last notification reached the
\* well-behaved listener although the other registered listener raised
ListenerIsolationWitness ==
    /\ syncListeners = StatusListeners \cup RaisingListeners
    /\ Len(lastNotify) = 1
    /\ lastNotify[1].status = "success"
    /\ lastNotify[1].caught = RaisingListeners
    /\ DOMAIN lastNotify[1].invoked = syncListeners
    /\ \A l \in syncListeners : lastNotify[1].invoked[l] = 1
    /\ delivered # <<>> /\ delivered[1].result.success
    /\ ~syncInProgress
    /\ Len(saveLog) = 2


(***************************************************************************)
(* Sign-out and the sync state.                                            *)
(***************************************************************************)
\* C31: on sign-out SyncState is cleared: once the auth listener has
\* processed the end of the session the pending queue is empty,
\* lastSyncedHash and lastSyncTime are empty and the realtime subscription
\* is torn down.
\* (Violated: the handler stops the realtime subscription and nothing else.)
SignOutClearsSyncState ==
    [][ (\E cb \in Callbacks : AuthStateChanged(Null, cb)) =>
            /\ syncQueue' = <<>>
            /\ lastSyncedHash' = NoHash
            /\ lastSyncTime' = NoTime
            /\ subscription' = <<>>
            /\ realtimeUnsubscribe' = FALSE ]_vars


(***************************************************************************)
(* Who writes the sync state.                                              *)
(***************************************************************************)
\* one upload, one download, the realtime filter and clearSyncState in an
\* authenticated session
NextEngine == SoleUploadSteps \/ DownloadSteps(1) \/ RealtimeSteps \/ clearSyncState

SpecEngine == InitSession /\ [][NextEngine]_vars

\* C32 as stated: the snapshot handler only reads SyncState and leaves
\* syncInProgress, lastSyncedHash, lastSyncTime and the pending queue
\* unchanged.  (Violated: an accepted snapshot records its fingerprint and
\* the time.)
SnapshotOnlyReadsSyncState ==
    [][ (\E p \in Collections, md \in Metadata, storeOk \in BOOLEAN, t \in Times :
            Snapshot(p, md, storeOk, t)) =>
            UNCHANGED <<syncInProgress, lastSyncedHash, lastSyncTime, syncQueue>> ]_vars

\* C32, amended: syncInProgress, lastSyncedHash, lastSyncTime and the
\* pending queue change only in steps of an upload, of a download, of
\* clearSyncState and of the snapshot handler; the snapshot handler never
\* changes syncInProgress or the queue, and it writes lastSyncedHash (the
\* fingerprint of the snapshot) and lastSyncTime exactly when it accepts the
\* snapshot as an external change: no sync in progress and a fingerprint
\* other than lastSyncedHash.
SyncStateOwnership ==
    [][ /\ <<syncInProgress, lastSyncedHash, lastSyncTime, syncQueue>>'
               # <<syncInProgress, lastSyncedHash, lastSyncTime, syncQueue>> =>
              \/ uploads' # uploads
              \/ downloads' # downloads
              \/ clearSyncState
              \/ \E p \in Collections, md \in Metadata, storeOk \in BOOLEAN, t \in Times :
                    Snapshot(p, md, storeOk, t)
        /\ \A p \in Collections, md \in Metadata, storeOk \in BOOLEAN, t \in Times :
              Snapshot(p, md, storeOk, t) =>
                  /\ syncInProgress' = syncInProgress
                  /\ syncQueue' = syncQueue
                  /\ IF ~syncInProgress /\ calculateHash(p) # lastSyncedHash
                     THEN lastSyncedHash' = calculateHash(p) /\ lastSyncTime' = t
                     ELSE lastSyncedHash' = lastSyncedHash /\ lastSyncTime' = lastSyncTime
      ]_vars

\* the fingerprint and the time were recorded by the snapshot handler: no
\* upload and no download has been issued
SyncStateOwnershipWitness ==
    /\ \A r \in Requests : uploads[r].pc = "new"
    /\ \A d \in DownloadIds : downloads[d].pc = "new"
    /\ lastSnapshot # <<>>
    /\ lastSnapshot[1].forwarded
    /\ lastSnapshot[1].projects = <<Rec1b>>
    /\ lastSyncedHash = calculateHash(<<Rec1b>>)
    /\ lastSyncTime # NoTime


(***************************************************************************)
(* waitForAuth and waitForConnection.  call holds the auth state, the      *)
(* connection state and the promises the two helpers returned; a waiter    *)
(* records whether its listener is registered, the state of its timer and  *)
(* every call of its resolve / reject.                                     *)
(***************************************************************************)
MaxWaiters == 2

\* the listener a helper registers, called with (user, isLoading) or with
\* the connection status: definitive is !isLoading, or isOnline &&
\* isFirestoreConnected
WaitListener(w, definitive, value) ==
    IF w.listening /\ definitive
    THEN [w EXCEPT !.listening = FALSE, !.timer = "cleared",
                   !.settled = Append(@, [kind |-> "resolve", value |-> value])]
    ELSE w

\* the executor of the promise of waitForAuth(timeout)
waitForAuth(s) ==
    IF ~s.isLoading
    THEN [fn |-> "waitForAuth", listening |-> FALSE, timer |-> "none",
          settled |-> <<[kind |-> "resolve", value |-> s.currentUser]>>]
    ELSE [fn |-> "waitForAuth", listening |-> TRUE, timer |-> "armed", settled |-> <<>>]

\* the executor of the promise of waitForConnection(timeout); onConnectionChange
\* calls the new listener at once with the current status
waitForConnection(s) ==
    IF s.isOnline /\ s.isFirestoreConnected
    THEN [fn |-> "waitForConnection", listening |-> FALSE, timer |-> "none",
          settled |-> <<[kind |-> "resolve", value |-> TRUE]>>]
    ELSE WaitListener([fn |-> "waitForConnection", listening |-> TRUE, timer |-> "armed",
                       settled |-> <<>>],
                      s.isOnline /\ s.isFirestoreConnected, TRUE)

InitWait ==
    /\ EngineAtRest
    /\ call \in {<<[fn |-> "wait", isLoading |-> FALSE, currentUser |-> Null,
                    isOnline |-> o, isFirestoreConnected |-> FALSE, waiters |-> <<>>]>> :
                 o \in BOOLEAN}

\* call changes to next, the sync engine untouched
WaitStep(next) ==
    /\ call # <<>>
    /\ call[1].fn = "wait"
    /\ call' = <<next>>
    /\ UNCHANGED <<currentUser, syncStateVars, syncListeners, autoSyncEnabled,
                   currentConflictStrategy, localStorage, subscription, uploads, downloads,
                   saveLog, onUpdateLog, lastSnapshot, lastNotify, delivered>>

WaitForAuthCall ==
    /\ call # <<>> /\ Len(call[1].waiters) < MaxWaiters
    /\ WaitStep([call[1] EXCEPT !.waiters = Append(@, waitForAuth(call[1]))])

WaitForConnectionCall ==
    /\ call # <<>> /\ Len(call[1].waiters) < MaxWaiters
    /\ WaitStep([call[1] EXCEPT !.waiters = Append(@, waitForConnection(call[1]))])

\* initAuthListener, signInWithGoogle and signOut begin: authState.isLoading = true
AuthLoadingStarts ==
    /\ call # <<>> /\ ~call[1].isLoading
    /\ WaitStep([call[1] EXCEPT !.isLoading = TRUE])

\* the callbacks initAuthListener hands to auth.onAuthStateChanged: the next
\* user, or an error of the auth state listener
OnAuthStateChanged(user, isError) ==
    /\ call # <<>>
    /\ LET s == call[1]
           notified == [i \in DOMAIN s.waiters |->
                          IF s.waiters[i].fn = "waitForAuth"
                          THEN WaitListener(s.waiters[i], TRUE, IF isError THEN Null ELSE user)
                          ELSE s.waiters[i]]
       IN  WaitStep([s EXCEPT !.isLoading = FALSE,
                              !.currentUser = IF isError THEN @ ELSE user,
                              !.waiters = notified])

\* signInWithGoogle and signOut end, with or without success:
\* authState.isLoading = false, no listener called
AuthLoadingEnds ==
    /\ call # <<>> /\ call[1].isLoading
    /\ WaitStep([call[1] EXCEPT !.isLoading = FALSE])

\* updateConnectionStatus(isOnline, isFirestoreConnected) with a changed status
updateConnectionStatus(isOnline, isFirestoreConnected) ==
    /\ call # <<>>
    /\ <<isOnline, isFirestoreConnected>> #
          <<call[1].isOnline, call[1].isFirestoreConnected>>
    /\ LET s == call[1]
           notified == [i \in DOMAIN s.waiters |->
                          IF s.waiters[i].fn = "waitForConnection"
                          THEN WaitListener(s.waiters[i],
                                            isOnline /\ isFirestoreConnected, TRUE)
                          ELSE s.waiters[i]]
       IN  WaitStep([s EXCEPT !.isOnline = isOnline,
                              !.isFirestoreConnected = isFirestoreConnected,
                              !.waiters = notified])

\* the setTimeout callback of waiter i runs: unsubscribe(); reject(...)
WaitTimeout(i) ==
    /\ call # <<>>
    /\ i \in DOMAIN call[1].waiters
    /\ call[1].waiters[i].timer = "armed"
    /\ WaitStep([call[1] EXCEPT !.waiters[i] =
                    [@ EXCEPT !.listening = FALSE, !.timer = "fired",
                              !.settled = Append(@, [kind |-> "reject", value |-> Null])]])

NextWait ==
    \/ WaitForAuthCall
    \/ WaitForConnectionCall
    \/ AuthLoadingStarts
    \/ \E user \in {Null} \cup Users, isError \in BOOLEAN : OnAuthStateChanged(user, isError)
    \/ AuthLoadingEnds
    \/ \E o, f \in BOOLEAN : updateConnectionStatus(o, f)
    \/ \E i \in 1..MaxWaiters : WaitTimeout(i)

SpecWait == InitWait /\ [][NextWait]_vars

\* C33: waitForAuth and waitForConnection settle exactly once: a call made
\* while the definitive state (auth not loading; online and connected to
\* Firestore) holds resolves at once, a pending call resolves in the step
\* that reaches the definitive state, a pending call whose timer fires
\* rejects, and a settled call has no listener and no armed timer and never
\* changes again.  (Violated by waitForAuth: signInWithGoogle and signOut
\* end loading without calling the listeners.)
WaitersSettleOnce ==
    [][ call # <<>> /\ call' # <<>> =>
          LET s == call[1]
              t == call'[1]
              Definitive(st, fn) == IF fn = "waitForAuth" THEN ~st.isLoading
                                    ELSE st.isOnline /\ st.isFirestoreConnected
              Resolved(w) == Len(w.settled) = 1 /\ w.settled[1].kind = "resolve"
              Rejected(w) == Len(w.settled) = 1 /\ w.settled[1].kind = "reject"
          IN  \A i \in DOMAIN t.waiters :
                LET w2 == t.waiters[i]
                IN  /\ Len(w2.settled) <= 1
                    /\ w2.settled # <<>> => ~w2.listening /\ w2.timer # "armed"
                    /\ i > Len(s.waiters) /\ Definitive(s, w2.fn) => Resolved(w2)
                    /\ i <= Len(s.waiters) =>
                         LET w == s.waiters[i]
                         IN  /\ w.settled # <<>> => w2 = w
                             /\ w.settled = <<>> /\ Definitive(t, w.fn) => Resolved(w2)
                             /\ w.settled = <<>> /\ WaitTimeout(i) => Rejected(w2) ]_vars


\* C34: the sentinel returned for the empty collection is the fingerprint
\* of no non-empty collection: calculateHash of a collection with at least
\* one record never returns the string 'empty'.  (Violated: 'empty' read in
\* base 36 is 24574534, a 32-bit hash like any other; it is the hash of
\* [{"id":1,"name":"AAeuufj"}].)
SentinelIsReserved ==
    call # <<>> /\ call[1].fn = "calculateHash" =>
        (call[1].projects # <<>> /\ Len(call[1].projects[1]) > 0 =>
            \A i \in DOMAIN call[1].result : call[1].result[i] # EmptySentinel)


\* uploads, a download, snapshot deliveries and clearSyncState in an
\* authenticated session whose writes to the local store all succeed
NextReplica ==
    \/ \E r \in 1..MaxWatchedRequests, p \in Collections : SyncToCloudCall(r, p)
    \/ \E r \in 1..MaxWatchedRequests : QueuedSyncRuns(r)
    \/ \E r \in 1..MaxWatchedRequests, remoteOk \in BOOLEAN, t \in Times :
          SaveCompletes(r, remoteOk, "", TRUE, t)
    \/ \E m \in BOOLEAN : SyncFromCloudCall(1, m)
    \/ \E remoteOk \in BOOLEAN, remote \in Collections, fromCache \in BOOLEAN, t \in Times :
          /\ ~remoteOk => remote = <<>> /\ ~fromCache
          /\ FetchCompletes(1, remoteOk, remote, fromCache, "", TRUE, t)
    \/ \E p \in Collections, md \in Metadata, t \in Times : Snapshot(p, md, TRUE, t)
    \/ clearSyncState

SpecReplica == InitSession /\ [][NextReplica]_vars

\* two uploads that succeed, of C1 = [Rec1a] and then of C2 = [Rec1b], a
\* merging download that fetches the empty remote collection R = [], and
\* the snapshots the subscription delivers next to them
NextEcho ==
    \/ SyncToCloudCall(1, <<Rec1a>>)
    \/ SyncToCloudCall(2, <<Rec1b>>)
    \/ QueuedSyncRuns(2)
    \/ \E r \in 1..2, t \in Times : SaveCompletes(r, TRUE, "", TRUE, t)
    \/ SyncFromCloudCall(1, TRUE)
    \/ \E t \in Times : FetchCompletes(1, TRUE, <<>>, FALSE, "", TRUE, t)
    \/ \E p \in Collections, md \in Metadata, t \in Times : Snapshot(p, md, TRUE, t)

SpecEcho == InitSession /\ [][NextEcho]_vars

\* C35: after the uploads of C1 and then of C2 (another fingerprint) have
\* both completed successfully, a snapshot carrying C1 is not written over
\* the local replica, which holds C2, and is not handed to onUpdate.
\* (Violated: the filter compares with the fingerprint of C2 only.)
LateEchoIsSuppressed ==
    [][ ( /\ uploads[1].pc = "done" /\ uploads[2].pc = "done"
          /\ calculateHash(<<Rec1a>>) # calculateHash(<<Rec1b>>)
          /\ lastSyncedHash = calculateHash(<<Rec1b>>)
          /\ loadLocalProjects(localStorage, currentUser) = <<Rec1b>>
          /\ \E md \in Metadata, t \in Times : Snapshot(<<Rec1a>>, md, TRUE, t) )
        => /\ loadLocalProjects(localStorage', currentUser) = <<Rec1b>>
           /\ onUpdateLog' = onUpdateLog ]_vars

\* C36: after a merging download (latest_wins) whose result M holds
\* local-only records and so differs from the fetched remote collection R
\* (here R = [], so every record of a non-empty M is local-only), a snapshot
\* carrying the same R is not taken for an external change: the local
\* replica keeps M.  (Violated: the fingerprint of R differs from that of M,
\* the snapshot is written over the local replica and the local-only
\* records are gone.)
MergedReplicaSurvivesSnapshot ==
    [][ ( /\ delivered # <<>>
          /\ delivered[1].op = "download"
          /\ delivered[1].result.success
          /\ delivered[1].result.direction = "merge"
          /\ LET M == delivered[1].result.projects
             IN  /\ Len(M) > 0
                 /\ loadLocalProjects(localStorage, currentUser) = M
                 /\ lastSyncedHash = calculateHash(M)
          /\ \E md \in Metadata, t \in Times : Snapshot(<<>>, md, TRUE, t) )
        => loadLocalProjects(localStorage', currentUser)
              = loadLocalProjects(localStorage, currentUser) ]_vars

\* C37: with a fixed signed-in user and local writes that succeed, in every
\* state reached through uploads, downloads, snapshot deliveries and
\* clearSyncState, lastSyncedHash is empty or the fingerprint of the current
\* local replica, and lastSyncTime is empty exactly when lastSyncedHash is.
HashMatchesReplica ==
    /\ \/ lastSyncedHash = NoHash
       \/ lastSyncedHash = HashOf(loadLocalProjects(localStorage, currentUser))
    /\ lastSyncTime = NoTime <=> lastSyncedHash = NoHash

\* two uploads and a download are over and a snapshot carrying [Rec1b] was
\* forwarded last: fingerprint and local replica are those of the snapshot
HashMatchesReplicaWitness ==
    /\ uploads[1].pc = "done" /\ uploads[2].pc = "done"
    /\ downloads[1].pc = "done"
    /\ lastSnapshot # <<>> /\ lastSnapshot[1].forwarded
    /\ lastSnapshot[1].projects = <<Rec1b>>
    /\ lastSyncedHash = HashOf(<<Rec1b>>)
    /\ lastSyncTime # NoTime
    /\ loadLocalProjects(localStorage, currentUser) = <<Rec1b>>


\* C38: in every state, a call of startRealtimeSync(onUpdate) made while
\* authenticated that returns a handle leaves a live remote subscription, and when no subscription is
\* live (none was started yet, or the caller has invoked the Unsubscribe
\* function it was given) the subscription is a new one that hands its
\* snapshots to onUpdate.  (Violated: the handle invoked by the caller stays
\* in syncState.realtimeUnsubscribe, and the next call returns it as
\* 'already active' without subscribing.)
RestartAfterUnsubscribe ==
    \A onUpdate \in Callbacks :
        LET r == startRealtimeSync(currentUser, realtimeUnsubscribe, subscription, onUpdate)
        IN  isAuthenticated /\ r[1] =>
                /\ r[2] # <<>>
                /\ subscription = <<>> => r[2][1].onUpdate = onUpdate


\* C39: an upload mirrors its collection into the local namespace of the
\* user who was signed in when it started, and into no other: the step in
\* which the remote save returns leaves every other namespace as it was.
\* Users holds one user, so every upload that is saving was started by "u1".
\* (Violated: saveLocalProjects takes the storage key of the user signed in
\* when the save returns; after a sign-out that is the anonymous namespace.)
UploadMirrorsIntoOwnNamespace ==
    [][ (\E r \in Requests, o \in RemoteOutcomes, t \in Times :
            SaveCompletes(r, o.remoteOk, o.msg, o.storeOk, t)) =>
        \A k \in StorageKeys :
            k # getStorageKey("u1") => localStorage'[k] = localStorage[k] ]_vars


\* C40: a failed upload or download changes neither lastSyncedHash nor
\* lastSyncTime nor the local replica: not in the step in which it starts
\* (or is taken from the queue) and not in the step in which the remote save
\* or fetch fails.  A failing upload clears syncInProgress and drains one
\* request from the queue; a failing download touches neither.
FailedSyncLeavesState ==
    [][ /\ \A r \in Requests :
             /\ (\E p \in Collections : SyncToCloudCall(r, p)) \/ QueuedSyncRuns(r) =>
                   UNCHANGED <<lastSyncedHash, lastSyncTime, localStorage>>
             /\ (\E msg \in {"", "unavailable"}, t \in Times :
                    SaveCompletes(r, FALSE, msg, TRUE, t)) =>
                   /\ UNCHANGED <<lastSyncedHash, lastSyncTime, localStorage>>
                   /\ delivered'[1].op = "upload" /\ ~delivered'[1].result.success
                   /\ ~syncInProgress'
                   /\ syncQueue' = IF syncQueue = <<>> THEN <<>> ELSE Tail(syncQueue)
        /\ \A d \in DownloadIds :
             /\ (\E m \in BOOLEAN : SyncFromCloudCall(d, m)) =>
                   UNCHANGED <<lastSyncedHash, lastSyncTime, localStorage,
                               syncInProgress, syncQueue>>
             /\ ( /\ downloads[d].pc = "fetching" /\ downloads'[d].pc = "done"
                  /\ delivered' # <<>> /\ delivered'[1].op = "download"
                  /\ ~delivered'[1].result.success ) =>
                   UNCHANGED <<lastSyncedHash, lastSyncTime, localStorage,
                               syncInProgress, syncQueue>> ]_vars

\* an upload has failed after an earlier operation had set the fingerprint,
\* and a download has failed last: fingerprint, time and replica are still
\* those of the operation that succeeded
FailedSyncLeavesStateWitness ==
    /\ lastNotify # <<>> /\ lastNotify[1].status = "error"
    /\ delivered # <<>> /\ delivered[1].op = "download" /\ ~delivered[1].result.success
    /\ lastSyncedHash = HashOf(<<Rec1a>>)
    /\ lastSyncTime # NoTime
    /\ loadLocalProjects(localStorage, currentUser) = <<Rec1a>>

====
